---------------------------- MODULE Spec2Model ----------------------------
(***************************************************************************)
(* A model of the python-lsp-mcp gateway (rope_mcp/config.py and          *)
(* rope_mcp/server.py): the active workspace and path resolution, the     *)
(* per-tool backend routing, and the tool handlers that dispatch to the   *)
(* rope / pyright / ripgrep collaborators.                                *)
(*                                                                         *)
(* Path strings are sequences of one-character strings, so that           *)
(* str.startswith, os.path.join and os.path.normpath are computed on      *)
(* characters, as the code computes them.                                 *)
(***************************************************************************)
EXTENDS Naturals, Sequences, FiniteSets

\* ------------------------------------------------------------------ bounds

\* Longest input path string enumerated by the path specification.
MaxPathLen == 5

\* Tool calls the host has in flight at once in the concurrent specification.
MaxRequests == 2

\* The text edits of a workspace edit: the last line and character a position
\* names, the edits one file is given, and the longest file content.
MaxLine == 1
MaxChar == 1
MaxEdits == 2
MaxContentLen == 3
\* status calls in flight at once, and set_backend calls in flight at once,
\* among the MaxRequests calls
MaxSameCalls == 1

\* Characters of the enumerated path strings.
Alphabet == {"/", ".", "a", "b"}

\* ------------------------------------------------------- strings and paths

\* None / "" : Python treats both as falsy; no path the code stores is empty.
NoPath == <<>>

RECURSIVE Strs(_)
Strs(n) ==
  IF n = 0 THEN {<<>>}
  ELSE LET prev == Strs(n - 1)
       IN  prev \cup {Append(s, c) : s \in prev, c \in Alphabet}

\* Every path string of at most MaxPathLen characters.
PathStrings == Strs(MaxPathLen)

\* str.startswith
startswith(s, prefix) ==
  /\ Len(prefix) <= Len(s)
  /\ SubSeq(s, 1, Len(prefix)) = prefix

\* str.split("/") : the components between slashes, empty ones included.
RECURSIVE split(_)
split(s) ==
  IF \A i \in 1..Len(s) : s[i] # "/" THEN <<s>>
  ELSE LET k == CHOOSE i \in 1..Len(s) :
                  s[i] = "/" /\ \A j \in 1..(i - 1) : s[j] # "/"
       IN  <<SubSeq(s, 1, k - 1)>> \o split(SubSeq(s, k + 1, Len(s)))

\* "/".join(comps)
RECURSIVE joinComps(_)
joinComps(comps) ==
  IF comps = <<>> THEN <<>>
  ELSE IF Len(comps) = 1 THEN comps[1]
  ELSE comps[1] \o <<"/">> \o joinComps(Tail(comps))

DotDot == <<".", ".">>
Dot == <<".">>

\* posixpath.normpath keeps exactly two leading slashes, and folds three or
\* more into one.
initial_slashes(path) ==
  IF ~startswith(path, <<"/">>) THEN 0
  ELSE IF startswith(path, <<"/", "/">>) /\ ~startswith(path, <<"/", "/", "/">>)
       THEN 2
       ELSE 1

\* The loop of posixpath.normpath over the split components.
RECURSIVE normComps(_, _, _)
normComps(comps, new_comps, slashes) ==
  IF comps = <<>> THEN new_comps
  ELSE LET comp == Head(comps)
           rest == Tail(comps)
       IN  IF comp = <<>> \/ comp = Dot
             THEN normComps(rest, new_comps, slashes)
           ELSE IF \/ comp # DotDot
                   \/ (slashes = 0 /\ new_comps = <<>>)
                   \/ (new_comps # <<>> /\ new_comps[Len(new_comps)] = DotDot)
             THEN normComps(rest, Append(new_comps, comp), slashes)
           ELSE IF new_comps # <<>>
             THEN normComps(rest, SubSeq(new_comps, 1, Len(new_comps) - 1), slashes)
           ELSE normComps(rest, new_comps, slashes)

slashPrefix(n) == IF n = 2 THEN <<"/", "/">> ELSE IF n = 1 THEN <<"/">> ELSE <<>>

\* os.path.normpath (posix)
normpath(path) ==
  IF path = <<>> THEN Dot
  ELSE LET n == initial_slashes(path)
           p == slashPrefix(n) \o joinComps(normComps(split(path), <<>>, n))
       IN  IF p = <<>> THEN Dot ELSE p

\* os.path.isabs / PurePosixPath.is_absolute
isabs(path) == startswith(path, <<"/">>)

\* os.path.join(a, b) for two arguments
join(a, b) ==
  IF isabs(b) THEN b
  ELSE IF a = <<>> \/ a[Len(a)] = "/" THEN a \o b
  ELSE a \o <<"/">> \o b

\* The directory the process runs in (os.getcwd()); the code never changes it.
Cwd == <<"/", "b">>

\* os.path.abspath
abspath(path) == normpath(IF isabs(path) THEN path ELSE join(Cwd, path))

\* str(Path(p)): pathlib drops empty and "." components and a trailing
\* slash, keeps ".." and an exactly-double leading slash.
RECURSIVE dropEmptyAndDot(_)
dropEmptyAndDot(comps) ==
  IF comps = <<>> THEN <<>>
  ELSE IF Head(comps) = <<>> \/ Head(comps) = Dot
         THEN dropEmptyAndDot(Tail(comps))
         ELSE <<Head(comps)>> \o dropEmptyAndDot(Tail(comps))

Path_str(path) ==
  LET p == slashPrefix(initial_slashes(path))
             \o joinComps(dropEmptyAndDot(split(path)))
  IN  IF p = <<>> THEN Dot ELSE p

\* The directories of the file system the gateway runs on.  A leading "//"
\* names the same directory as "/" to the kernel.
Dirs ==
  { <<"/">>,
    <<"/", "a">>,
    <<"/", "a", "/", "b">>,
    <<"/", "a", "b">>,
    <<"/", "b">>,
    <<"/", "b", "/", "a">> }

kernelPath(p) == IF startswith(p, <<"/", "/">>) THEN Tail(p) ELSE p

\* os.path.isdir on a normalized absolute path
isdir(p) == kernelPath(p) \in Dirs

\* os.path.dirname
dirname(p) ==
  LET slashes == {i \in 1..Len(p) : p[i] = "/"}
      i == IF slashes = {} THEN 0
           ELSE CHOOSE k \in slashes : \A j \in slashes : j <= k
      head == SubSeq(p, 1, i)
      keep == {k \in 1..Len(head) : head[k] # "/"}
  IN  IF keep = {} THEN head
      ELSE SubSeq(head, 1, CHOOSE k \in keep : \A j \in keep : j <= k)

\* ------------------------------------------------------------ configuration

Backends == {"rope", "pyright"}

SHARED_TOOLS == {"hover", "definition", "references", "completions", "symbols"}
ROPE_ONLY_TOOLS == {"rename"}
PYRIGHT_ONLY_TOOLS == {"diagnostics", "signature_help"}

\* str.lower on the backend strings the calls are given.
lower(s) ==
  CASE s = "PYRIGHT" -> "pyright"
    [] s = "Rope" -> "rope"
    [] OTHER -> s

EmptyMap == [x \in {} |-> ""]

\* A file's text is a sequence of characters; NL ends a line.
NL == "\n"

\* The files a workspace edit names, and what a file that is absent holds.
Files == {"/f", "/g"}
Missing == [exists |-> FALSE, content |-> <<>>]
File(content) == [exists |-> TRUE, content |-> content]

VARIABLES
  activeWorkspace,     \* config._active_workspace (NoPath: None)
  _config,             \* config._config: "None", or "ServerConfig" when it
                       \* refers to the object whose fields are the next two
  default_backend,     \* ServerConfig.default_backend
  tool_backends,       \* ServerConfig.tool_backends: a map from tool to backend
  python_paths,        \* config._python_paths: a map from workspace to interpreter
  global_python_path,  \* config._global_python_path ("": None)
  lspClients,          \* workspaces with an open language-server client
  ropeProjects,        \* workspaces with an open rope project
  call,                \* the tool call being answered: arguments, result,
                       \* collaborator calls made (NoCall: the server is idle)
  lastSwitch,          \* the path argument of the call answered last, when it
                       \* was a successful switch_workspace; switched: the
                       \* workspace of the last successful switch_workspace,
                       \* noted where sessions are followed
  reqs,                \* concurrent requests in flight: position and locals
  disk                 \* the files edits are applied to: path -> content

vars ==
  <<activeWorkspace, _config, default_backend, tool_backends, python_paths,
    global_python_path, lspClients, ropeProjects, call, lastSwitch, reqs,
    disk>>

cfgVars == <<_config, default_backend, tool_backends>>
pyVars == <<python_paths, global_python_path>>
sessVars == <<lspClients, ropeProjects>>

\* get_backend_for looking at the default only.
get_backend_for_default_only(tool) ==
  IF tool \in ROPE_ONLY_TOOLS THEN "rope"
  ELSE IF tool \in PYRIGHT_ONLY_TOOLS THEN "pyright"
  ELSE default_backend

\* ServerConfig.get_backend_for
get_backend_for(tool) ==
  IF tool \in ROPE_ONLY_TOOLS THEN "rope"
  ELSE IF tool \in PYRIGHT_ONLY_TOOLS THEN "pyright"
  ELSE IF tool \in DOMAIN tool_backends THEN tool_backends[tool]
  ELSE default_backend

\* _get_effective_backend answering rope for an explicit argument it does
\* not know.
_get_effective_backend_unknown_is_rope(tool, backend) ==
  IF backend # "" /\ lower(backend) \in Backends
    THEN lower(backend)
  ELSE IF backend # "" THEN "rope"
  ELSE get_backend_for(tool)

\* server._get_effective_backend: the explicit argument is tried first.
_get_effective_backend(tool, backend) ==
  IF backend # "" /\ lower(backend) \in Backends
    THEN lower(backend)
    ELSE get_backend_for(tool)

\* _config after _get_effective_backend: get_config() is called, and builds
\* the object when there is none, unless the explicit argument decided.
config_after_effective_backend(backend) ==
  IF backend # "" /\ lower(backend) \in Backends THEN _config
  ELSE "ServerConfig"

\* ------------------------------------------------------- workspace and paths

\* config.is_file_in_workspace
is_file_in_workspace(file_path) ==
  IF activeWorkspace = NoPath THEN TRUE
  ELSE startswith(abspath(file_path), activeWorkspace)

\* resolve_file_path refusing a relative path when no workspace is active.
resolve_file_path_rejects_relative(file_path) ==
  LET joined ==
        IF ~isabs(file_path)
          THEN IF activeWorkspace # NoPath
                 THEN join(activeWorkspace, file_path)
                 ELSE abspath(file_path)
          ELSE Path_str(file_path)
      abs_path == abspath(joined)
  IN  IF \/ activeWorkspace # NoPath /\ ~startswith(abs_path, activeWorkspace)
         \/ activeWorkspace = NoPath /\ ~isabs(file_path)
        THEN [path |-> NoPath, error |-> "Context Mismatch",
              message |-> <<file_path, abs_path, activeWorkspace>>,
              current_workspace |-> activeWorkspace, resolved_path |-> abs_path]
        ELSE [path |-> abs_path, error |-> "", message |-> <<>>,
              current_workspace |-> NoPath, resolved_path |-> NoPath]

\* resolve_file_path returning the path it resolved beside the error.
resolve_file_path_keeps_path(file_path) ==
  LET joined ==
        IF ~isabs(file_path)
          THEN IF activeWorkspace # NoPath
                 THEN join(activeWorkspace, file_path)
                 ELSE abspath(file_path)
          ELSE Path_str(file_path)
      abs_path == abspath(joined)
  IN  IF activeWorkspace # NoPath /\ ~startswith(abs_path, activeWorkspace)
        THEN [path |-> abs_path, error |-> "Context Mismatch",
              message |-> <<file_path, abs_path, activeWorkspace>>,
              current_workspace |-> activeWorkspace, resolved_path |-> abs_path]
        ELSE [path |-> abs_path, error |-> "", message |-> <<>>,
              current_workspace |-> NoPath, resolved_path |-> NoPath]

\* config.resolve_file_path: (absolute_path, error_dict)
resolve_file_path(file_path) ==
  LET joined ==
        IF ~isabs(file_path)
          THEN IF activeWorkspace # NoPath
                 THEN join(activeWorkspace, file_path)
                 ELSE abspath(file_path)
          ELSE Path_str(file_path)
      abs_path == abspath(joined)
  IN  IF activeWorkspace # NoPath /\ ~startswith(abs_path, activeWorkspace)
        THEN [path |-> NoPath, error |-> "Context Mismatch",
              message |-> <<file_path, abs_path, activeWorkspace>>,
              current_workspace |-> activeWorkspace, resolved_path |-> abs_path]
        ELSE [path |-> abs_path, error |-> "", message |-> <<>>,
              current_workspace |-> NoPath, resolved_path |-> NoPath]

\* rope client: the project root found for a file when no workspace is active.
find_workspace_for_file(file_path) == dirname(file_path)

\* server._find_workspace
_find_workspace(file_path) ==
  IF activeWorkspace # NoPath THEN activeWorkspace
  ELSE find_workspace_for_file(file_path)

\* One collaborator call made by a handler.
Eff(k, ws) == [k |-> k, ws |-> ws]

\* config.ENV_PREFIXES, in the order get_env tries them.
ENV_PREFIXES == <<"PYTHON_LSP_MCP_", "ROPE_MCP_">>

\* f"{tool.upper()}_BACKEND"
tool_suffix(tool) ==
  CASE tool = "hover" -> "HOVER_BACKEND"
    [] tool = "definition" -> "DEFINITION_BACKEND"
    [] tool = "references" -> "REFERENCES_BACKEND"
    [] tool = "completions" -> "COMPLETIONS_BACKEND"
    [] tool = "symbols" -> "SYMBOLS_BACKEND"
    [] tool = "rename" -> "RENAME_BACKEND"
    [] tool = "diagnostics" -> "DIAGNOSTICS_BACKEND"
    [] tool = "signature_help" -> "SIGNATURE_HELP_BACKEND"

\* os.environ for the variables of both prefixes, those of the exclusive
\* tools included: <<prefix, suffix>> -> value, "" for a variable that is not
\* set (os.environ.get(name, "")).
EnvNames ==
  {ENV_PREFIXES[1], ENV_PREFIXES[2]}
    \X ({"BACKEND"}
          \cup {tool_suffix(t) : t \in SHARED_TOOLS \cup ROPE_ONLY_TOOLS
                                        \cup PYRIGHT_ONLY_TOOLS})
NoEnv == [n \in EnvNames |-> ""]

\* A value of a parsed configuration file: a key that is absent, null, a
\* number, or a string s; and a table with the three keys the code reads, or
\* a value of another type where a table is expected.
Absent == [t |-> "absent"]
Null == [t |-> "null"]
Number == [t |-> "number"]
Str(s) == [t |-> "str", s |-> s]
Table(pythonPath, venvPath, venv) ==
  [t |-> "dict", pythonPath |-> pythonPath, venvPath |-> venvPath,
   venv |-> venv]
NotATable == [t |-> "other", pythonPath |-> Absent, venvPath |-> Absent,
              venv |-> Absent]
EmptyTable == Table(Absent, Absent, Absent)

\* A configuration file of the workspace asked about: absent, present but
\* not readable (open throws OSError), not parseable, or parsed to value.
\* tool is what pyproject.toml holds under "tool": nothing, a table, or a
\* value of another type.
ConfigFile(state, tool, value) ==
  [state |-> state, tool |-> tool, value |-> value]
NoFile == ConfigFile("absent", "absent", EmptyTable)

\* The files discovery probes: the two configuration files of the workspace
\* and the interpreter files that exist.
NoFs == [json |-> NoFile, toml |-> NoFile, files |-> {}]

\* The code action run_code_action finds under the title it is given: none,
\* one with an "edit", one with a "command", or one with neither.  changes is
\* edit["changes"] in its iteration order.
CodeAction(kind, changes) == [kind |-> kind, changes |-> changes]
NoAction == CodeAction("", <<>>)

\* The fields of a ServerConfig object.
ServerConfig(default, overrides) ==
  [default_backend |-> default, tool_backends |-> overrides]

\* A local variable that refers to a ServerConfig: to no object yet, to the
\* one config._config refers to ("global"), or to one that _config referred
\* to until request `by` assigned another ("displaced").
NoRef == [kind |-> "none", by |-> 0]
GlobalRef == [kind |-> "global", by |-> 0]
DisplacedRef(by) == [kind |-> "displaced", by |-> by]

\* A request slot of the host with no call in it.  displaced outlives the
\* call: the object the slot's assignment to _config took the place of, for
\* as long as a request holds it.
IdleReq ==
  [op |-> "", pc |-> "idle", path |-> NoPath, abs |-> NoPath, ws |-> NoPath,
   wsAtResolve |-> NoPath, status |-> "",
   backend |-> "", tool |-> "", config |-> NoRef,
   displaced |-> ServerConfig("", EmptyMap), k |-> 0,
   default_backend |-> "", tool_backends |-> EmptyMap, result |-> "",
   pre |-> ServerConfig("", EmptyMap), snaps |-> {}]

NoCall ==
  [op |-> "", path |-> NoPath, backend |-> "", tool |-> "", python_path |-> "",
   status |-> "", error |-> "", resolved |-> NoPath,
   current_workspace |-> NoPath, resolved_path |-> NoPath, flag |-> FALSE,
   servedBy |-> "", backendField |-> "", effects |-> <<>>, message |-> <<>>,
   wsBefore |-> NoPath, lspBefore |-> {}, ropeBefore |-> {},
   default_backendBefore |-> "", tool_backendsBefore |-> EmptyMap,
   target_action |-> NoAction, response |-> "", written |-> <<>>,
   failed |-> "", diskBefore |-> EmptyMap,
   fs |-> NoFs, located |-> NoPath, env |-> NoEnv,
   python_pathsBefore |-> EmptyMap, global_python_pathBefore |-> ""]

Init ==
  /\ activeWorkspace = NoPath
  /\ _config = "None"
  /\ default_backend = "rope"
  /\ tool_backends = EmptyMap
  /\ python_paths = EmptyMap
  /\ global_python_path = ""
  /\ lspClients = {}
  /\ ropeProjects = {}
  /\ call = NoCall
  /\ lastSwitch = [some |-> FALSE, path |-> NoPath, switched |-> NoPath]
  /\ reqs = [i \in 1..MaxRequests |-> IdleReq]
  /\ disk = [f \in Files |-> File(<<"a", NL, "a">>)]

\* The arguments of a call and the workspace it found active.
Called(op, path, backend) ==
  [NoCall EXCEPT !.op = op, !.path = path, !.backend = backend,
                 !.wsBefore = activeWorkspace, !.lspBefore = lspClients,
                 !.ropeBefore = ropeProjects,
                 !.default_backendBefore = default_backend,
                 !.tool_backendsBefore = tool_backends,
                 !.diskBefore = disk,
                 !.python_pathsBefore = python_paths,
                 !.global_python_pathBefore = global_python_path]

\* switch_workspace with the workspace set before the sessions are closed.
switch_workspace_set_first(path, raises) ==
  LET abs_path == abspath(path)
      c == Called("switch_workspace", path, "")
  IN  /\ UNCHANGED <<cfgVars, pyVars>>
      /\ IF ~isdir(abs_path)
           THEN /\ raises = "none"
                /\ call' = [c EXCEPT !.status = "error", !.error = "Invalid Path"]
                /\ UNCHANGED <<activeWorkspace, sessVars>>
         ELSE IF raises = "close_lsp_clients"
           THEN /\ lspClients # {}
                /\ \E left \in SUBSET lspClients : lspClients' = left
                /\ call' = [c EXCEPT !.status = "raised",
                              !.effects = <<Eff("close_lsp_clients", NoPath)>>]
                /\ activeWorkspace' = abspath(abs_path)
                /\ UNCHANGED ropeProjects
         ELSE IF raises = "close_all"
           THEN /\ ropeProjects # {}
                /\ lspClients' = {}
                /\ \E left \in SUBSET ropeProjects : ropeProjects' = left
                /\ call' = [c EXCEPT !.status = "raised",
                              !.effects = <<Eff("close_lsp_clients", NoPath),
                                            Eff("close_all", NoPath)>>]
                /\ activeWorkspace' = abspath(abs_path)
         ELSE /\ raises = "none"
              /\ lspClients' = {}
              /\ ropeProjects' = {}
              /\ activeWorkspace' = abspath(abs_path)
              /\ call' = [c EXCEPT !.status = "ok",
                            !.resolved = abspath(abs_path),
                            !.effects = <<Eff("close_lsp_clients", NoPath),
                                          Eff("close_all", NoPath),
                                          Eff("set_active_workspace",
                                              abspath(abs_path))>>]


\* switch_workspace with the sessions closed before the path is validated.
switch_workspace_close_first(path, raises) ==
  LET abs_path == abspath(path)
      c == Called("switch_workspace", path, "")
  IN  /\ UNCHANGED <<cfgVars, pyVars>>
      /\ IF ~isdir(abs_path)
           THEN /\ raises = "none"
                /\ call' = [c EXCEPT !.status = "error", !.error = "Invalid Path"]
                /\ lspClients' = {}
                /\ ropeProjects' = {}
                /\ UNCHANGED activeWorkspace
         ELSE IF raises = "close_lsp_clients"
           THEN /\ lspClients # {}
                /\ \E left \in SUBSET lspClients : lspClients' = left
                /\ call' = [c EXCEPT !.status = "raised",
                              !.effects = <<Eff("close_lsp_clients", NoPath)>>]
                /\ UNCHANGED <<activeWorkspace, ropeProjects>>
         ELSE IF raises = "close_all"
           THEN /\ ropeProjects # {}
                /\ lspClients' = {}
                /\ \E left \in SUBSET ropeProjects : ropeProjects' = left
                /\ call' = [c EXCEPT !.status = "raised",
                              !.effects = <<Eff("close_lsp_clients", NoPath),
                                            Eff("close_all", NoPath)>>]
                /\ UNCHANGED activeWorkspace
         ELSE /\ raises = "none"
              /\ lspClients' = {}
              /\ ropeProjects' = {}
              /\ activeWorkspace' = abspath(abs_path)
              /\ call' = [c EXCEPT !.status = "ok",
                            !.resolved = abspath(abs_path),
                            !.effects = <<Eff("close_lsp_clients", NoPath),
                                          Eff("close_all", NoPath),
                                          Eff("set_active_workspace",
                                              abspath(abs_path))>>]


\* switch_workspace with a relative path taken from the active workspace.
switch_workspace_from_active(path, raises) ==
  LET abs_path == IF activeWorkspace # NoPath /\ ~isabs(path)
                    THEN abspath(join(activeWorkspace, path))
                    ELSE abspath(path)
      c == Called("switch_workspace", path, "")
  IN  /\ UNCHANGED <<cfgVars, pyVars>>
      /\ IF ~isdir(abs_path)
           THEN /\ raises = "none"
                /\ call' = [c EXCEPT !.status = "error", !.error = "Invalid Path"]
                /\ UNCHANGED <<activeWorkspace, sessVars>>
         ELSE IF raises = "close_lsp_clients"
           THEN /\ lspClients # {}
                /\ \E left \in SUBSET lspClients : lspClients' = left
                /\ call' = [c EXCEPT !.status = "raised",
                              !.effects = <<Eff("close_lsp_clients", NoPath)>>]
                /\ UNCHANGED <<activeWorkspace, ropeProjects>>
         ELSE IF raises = "close_all"
           THEN /\ ropeProjects # {}
                /\ lspClients' = {}
                /\ \E left \in SUBSET ropeProjects : ropeProjects' = left
                /\ call' = [c EXCEPT !.status = "raised",
                              !.effects = <<Eff("close_lsp_clients", NoPath),
                                            Eff("close_all", NoPath)>>]
                /\ UNCHANGED activeWorkspace
         ELSE /\ raises = "none"
              /\ lspClients' = {}
              /\ ropeProjects' = {}
              /\ activeWorkspace' = abspath(abs_path)
              /\ call' = [c EXCEPT !.status = "ok",
                            !.resolved = abspath(abs_path),
                            !.effects = <<Eff("close_lsp_clients", NoPath),
                                          Eff("close_all", NoPath),
                                          Eff("set_active_workspace",
                                              abspath(abs_path))>>]


\* server.switch_workspace.  raises names the session-closing call that
\* throws, if any; a registry with nothing to close cannot throw, and one
\* that throws may have closed some of its sessions.
switch_workspace(path, raises) ==
  LET abs_path == abspath(path)
      c == Called("switch_workspace", path, "")
  IN  /\ UNCHANGED <<cfgVars, pyVars>>
      /\ IF ~isdir(abs_path)
           THEN /\ raises = "none"
                /\ call' = [c EXCEPT !.status = "error", !.error = "Invalid Path"]
                /\ UNCHANGED <<activeWorkspace, sessVars>>
         ELSE IF raises = "close_lsp_clients"
           THEN /\ lspClients # {}
                /\ \E left \in SUBSET lspClients : lspClients' = left
                /\ call' = [c EXCEPT !.status = "raised",
                              !.effects = <<Eff("close_lsp_clients", NoPath)>>]
                /\ UNCHANGED <<activeWorkspace, ropeProjects>>
         ELSE IF raises = "close_all"
           THEN /\ ropeProjects # {}
                /\ lspClients' = {}
                /\ \E left \in SUBSET ropeProjects : ropeProjects' = left
                /\ call' = [c EXCEPT !.status = "raised",
                              !.effects = <<Eff("close_lsp_clients", NoPath),
                                            Eff("close_all", NoPath)>>]
                /\ UNCHANGED activeWorkspace
         ELSE /\ raises = "none"
              /\ lspClients' = {}
              /\ ropeProjects' = {}
              /\ activeWorkspace' = abspath(abs_path)
              /\ call' = [c EXCEPT !.status = "ok",
                            !.resolved = abspath(abs_path),
                            !.effects = <<Eff("close_lsp_clients", NoPath),
                                          Eff("close_all", NoPath),
                                          Eff("set_active_workspace",
                                              abspath(abs_path))>>]

\* "if error: return json.dumps(error)": the handler stops at the error of
\* resolve_file_path, before any collaborator is touched.
return_error(c, r) ==
  /\ call' = [c EXCEPT !.status = "error", !.error = r.error,
                       !.message = r.message,
                       !.current_workspace = r.current_workspace,
                       !.resolved_path = r.resolved_path]
  /\ UNCHANGED sessVars

\* The try-block of a handler served by the language server:
\*   workspace = _find_workspace(abs_file); client = get_lsp_client(workspace);
\*   result = client.<operation>(abs_file, ...)
\* and its "except Exception" arm, which returns {"error", "backend"}.
\* raises names the collaborator call that throws, if any.
via_pyright(c, abs_file, raises, okField, errField) ==
  LET workspace == _find_workspace(abs_file)
      got == [c EXCEPT !.resolved = abs_file]
  IN  IF raises = "get_lsp_client"
        THEN /\ call' = [got EXCEPT !.status = "error", !.error = "exception",
                                    !.backendField = errField,
                                    !.effects = <<Eff("get_lsp_client", workspace)>>]
             /\ UNCHANGED sessVars
        ELSE /\ raises \in {"none", "client"}
             /\ lspClients' = lspClients \cup {workspace}
             /\ UNCHANGED ropeProjects
             /\ call' =
                  IF raises = "client"
                    THEN [got EXCEPT !.status = "error", !.error = "exception",
                                     !.backendField = errField,
                                     !.effects = <<Eff("get_lsp_client", workspace),
                                                   Eff("client", workspace)>>]
                    ELSE [got EXCEPT !.status = "ok", !.servedBy = "pyright",
                                     !.backendField = okField,
                                     !.effects = <<Eff("get_lsp_client", workspace),
                                                   Eff("client", workspace)>>]

\* A handler served by rope: result = <rope operation>(abs_file, ...);
\* result["backend"] = "rope".  The call is not inside a try-block, so an
\* exception of the operation leaves the handler as it is.
via_rope(c, abs_file, raises) ==
  LET workspace == _find_workspace(abs_file)
      got == [c EXCEPT !.resolved = abs_file,
                       !.effects = <<Eff("rope", workspace)>>]
  IN  /\ raises \in {"none", "rope"}
      /\ ropeProjects' = ropeProjects \cup {workspace}
      /\ UNCHANGED lspClients
      /\ call' = IF raises = "rope"
                   THEN [got EXCEPT !.status = "raised"]
                   ELSE [got EXCEPT !.status = "ok", !.servedBy = "rope",
                                    !.backendField = "rope"]

\* A shared tool that leaves the explicit argument out of the choice.
shared_tool_ignores_explicit(tool, file, backend, raises) ==
  LET r == resolve_file_path(file)
      c == Called(tool, file, backend)
  IN  /\ UNCHANGED <<activeWorkspace, default_backend, tool_backends, pyVars>>
      /\ _config' = IF r.error # "" THEN _config
                    ELSE config_after_effective_backend(backend)
      /\ IF r.error # ""
           THEN raises = "none" /\ return_error(c, r)
         ELSE IF get_backend_for(tool) = "pyright"
           THEN via_pyright(c, r.path, raises, "pyright", "pyright")
           ELSE via_rope(c, r.path, raises)

\* hover, definition, references, completions, symbols: one shape.
shared_tool(tool, file, backend, raises) ==
  LET r == resolve_file_path(file)
      c == Called(tool, file, backend)
  IN  /\ UNCHANGED <<activeWorkspace, default_backend, tool_backends, pyVars>>
      /\ _config' = IF r.error # "" THEN _config
                    ELSE config_after_effective_backend(backend)
      /\ IF r.error # ""
           THEN raises = "none" /\ return_error(c, r)
         ELSE IF _get_effective_backend(tool, backend) = "pyright"
           THEN via_pyright(c, r.path, raises, "pyright", "pyright")
           ELSE via_rope(c, r.path, raises)

hover(file, backend, raises) == shared_tool("hover", file, backend, raises)
definition(file, backend, raises) == shared_tool("definition", file, backend, raises)
references(file, backend, raises) == shared_tool("references", file, backend, raises)
completions(file, backend, raises) == shared_tool("completions", file, backend, raises)
symbols(file, backend, raises) == shared_tool("symbols", file, backend, raises)

\* rename, move, change_signature, function_signature: rope, no try-block.
rope_tool(tool, file, raises) ==
  LET r == resolve_file_path(file)
      c == Called(tool, file, "")
  IN  /\ UNCHANGED <<activeWorkspace, cfgVars, pyVars>>
      /\ IF r.error # ""
           THEN raises = "none" /\ return_error(c, r)
           ELSE via_rope(c, r.path, raises)

rename(file, raises) == rope_tool("rename", file, raises)
move(file, raises) == rope_tool("move", file, raises)
change_signature(file, raises) == rope_tool("change_signature", file, raises)
function_signature(file, raises) == rope_tool("function_signature", file, raises)

\* ------------------------------------------------------------ workspace edits

\* uri.replace("file://", "")
file_path_of(uri) ==
  IF uri = "file:///f" THEN "/f"
  ELSE IF uri = "file:///g" THEN "/g"
  ELSE uri

\* rope client position_to_offset(source, line, column), both 1-based: the
\* offset of the position in the text, or a failure when the text has no
\* such line or the line no such column.
NumLines(content) == Cardinality({i \in 1..Len(content) : content[i] = NL})

LineStart(content, k) ==
  IF k = 0 THEN 0
  ELSE CHOOSE i \in 1..Len(content) :
         /\ content[i] = NL
         /\ Cardinality({j \in 1..i : content[j] = NL}) = k

LineLen(content, k) ==
  LET from == LineStart(content, k)
      ends == {i \in (from + 1)..Len(content) : content[i] = NL}
  IN  IF ends = {} THEN Len(content) - from
      ELSE (CHOOSE i \in ends : \A j \in ends : i <= j) - 1 - from

position_to_offset(content, line, column) ==
  IF line - 1 > NumLines(content)
    THEN [ok |-> FALSE, offset |-> 0]
  ELSE IF column - 1 > LineLen(content, line - 1)
    THEN [ok |-> FALSE, offset |-> 0]
  ELSE [ok |-> TRUE, offset |-> LineStart(content, line - 1) + column - 1]

\* key=lambda e: (e["range"]["start"]["line"], e["range"]["start"]["character"])
key_less(a, b) ==
  \/ a.range.start.line < b.range.start.line
  \/ /\ a.range.start.line = b.range.start.line
     /\ a.range.start.character < b.range.start.character

\* text_edits.sort(key=..., reverse=True): descending by start position;
\* the sort is stable, edits with the same start keep their order.
RECURSIVE sort_reverse(_, _, _)
sort_reverse(text_edits, i, acc) ==
  IF i > Len(text_edits) THEN acc
  ELSE LET e == text_edits[i]
           n == Cardinality({j \in 1..Len(acc) : ~key_less(acc[j], e)})
       IN  sort_reverse(text_edits, i + 1,
             SubSeq(acc, 1, n) \o <<e>> \o SubSeq(acc, n + 1, Len(acc)))

\* for text_edit in text_edits: both positions are converted against the
\* content as edited so far, then
\*   content = content[:start_offset] + new_text + content[end_offset:]
\* A conversion that fails throws, and the loop is left.
RECURSIVE apply_text_edits(_, _, _)
apply_text_edits(content, text_edits, i) ==
  IF i > Len(text_edits) THEN [ok |-> TRUE, content |-> content]
  ELSE LET e == text_edits[i]
           start_offset == position_to_offset(content, e.range.start.line + 1,
                                              e.range.start.character + 1)
           end_offset == position_to_offset(content, e.range["end"].line + 1,
                                            e.range["end"].character + 1)
       IN  IF ~start_offset.ok \/ ~end_offset.ok
             THEN [ok |-> FALSE, content |-> content]
             ELSE apply_text_edits(
                    SubSeq(content, 1, start_offset.offset) \o e.newText
                      \o SubSeq(content, end_offset.offset + 1, Len(content)),
                    text_edits, i + 1)

\* The edits applied in the order the list gives them, without the sort.
edited_in_list_order(content, text_edits) ==
  apply_text_edits(content, text_edits, 1)

\* The body of the loop over edit["changes"] for one file that exists: read,
\* sort, apply; the content to write, unless a conversion threw.
edited(content, text_edits) ==
  apply_text_edits(content, sort_reverse(text_edits, 1, <<>>), 1)

\* The file written after every edit, so that a conversion that throws
\* leaves the edits applied before it on disk.
apply_to_file_write_through(d, file_path, text_edits) ==
  LET r == edited(d[file_path].content, text_edits)
  IN  [disk |-> [d EXCEPT ![file_path] = File(r.content)], raised |-> ~r.ok]

\* One file that exists: the edited content is written with
\* open(file_path, "w") after the loop over its edits; a conversion that
\* throws leaves the function before the file is opened.
apply_to_file(d, file_path, text_edits) ==
  LET r == edited(d[file_path].content, text_edits)
  IN  IF ~r.ok THEN [disk |-> d, raised |-> TRUE]
      ELSE [disk |-> [d EXCEPT ![file_path] = File(r.content)],
            raised |-> FALSE]

\* for uri, text_edits in changes.items(), from the i-th item on.  A file that
\* does not exist is passed over.  written: the files opened for writing, in
\* order; raised: the function was left by an exception, at the file failed.
RECURSIVE apply_changes(_, _, _, _)
apply_changes(d, changes, i, written) ==
  IF i > Len(changes)
    THEN [disk |-> d, written |-> written, raised |-> FALSE, failed |-> ""]
  ELSE LET file_path == file_path_of(changes[i].uri)
       IN  IF ~d[file_path].exists
             THEN apply_changes(d, changes, i + 1, written)
           ELSE LET r == apply_to_file(d, file_path, changes[i].text_edits)
                IN  IF r.raised
                      THEN [disk |-> r.disk, written |-> written,
                            raised |-> TRUE, failed |-> file_path]
                      ELSE apply_changes(r.disk, changes, i + 1,
                                         Append(written, file_path))

\* The loop left at the first file that does not exist.
_apply_workspace_edit_stops_at_missing(d, changes) ==
  LET gone == {i \in 1..Len(changes) : ~d[file_path_of(changes[i].uri)].exists}
      n == IF gone = {} THEN Len(changes)
           ELSE (CHOOSE i \in gone : \A j \in gone : i <= j) - 1
  IN  apply_changes(d, SubSeq(changes, 1, n), 1, <<>>)

\* server._apply_workspace_edit on the files d.  changes is the dict
\* edit.get("changes", {}) in its iteration order, a sequence of
\* [uri, text_edits].
_apply_workspace_edit(d, changes) ==
  apply_changes(d, changes, 1, <<>>)

\* diagnostics ... run_code_action: the language server, inside a try-block.
\* okField is the "backend" entry the handler puts in its success envelope
\* ("": it puts none), errField the one of its except arm.
lsp_tool(tool, file, raises, okField, errField) ==
  LET r == resolve_file_path(file)
      c == Called(tool, file, "")
  IN  /\ UNCHANGED <<activeWorkspace, cfgVars, pyVars>>
      /\ IF r.error # ""
           THEN raises = "none" /\ return_error(c, r)
           ELSE via_pyright(c, r.path, raises, okField, errField)

diagnostics(path, raises) == lsp_tool("diagnostics", path, raises, "", "pyright-lsp")
signature_help(file, raises) == lsp_tool("signature_help", file, raises, "pyright", "pyright")
update_document(file, raises) == lsp_tool("update_document", file, raises, "pyright", "pyright")
inlay_hints(file, raises) == lsp_tool("inlay_hints", file, raises, "", "pyright")
code_action(file, raises) == lsp_tool("code_action", file, raises, "", "pyright")

\* server.run_code_action: the action is looked up by its title; its edit is
\* applied inside the try-block, so an exception of _apply_workspace_edit
\* is answered as {"error", "backend": "pyright"}.
run_code_action(file, raises, target_action) ==
  LET r == resolve_file_path(file)
      c == [Called("run_code_action", file, "") EXCEPT
              !.target_action = target_action]
  IN  /\ UNCHANGED <<activeWorkspace, cfgVars, pyVars>>
      /\ IF r.error # ""
           THEN raises = "none" /\ return_error(c, r) /\ UNCHANGED disk
         ELSE IF raises # "none"
           THEN /\ via_pyright(c, r.path, raises, "", "pyright")
                /\ UNCHANGED disk
         ELSE
           LET workspace == _find_workspace(r.path)
               got == [c EXCEPT !.resolved = r.path,
                                !.effects = <<Eff("get_lsp_client", workspace),
                                              Eff("client", workspace)>>]
               done == _apply_workspace_edit(disk, target_action.changes)
           IN  /\ lspClients' = lspClients \cup {workspace}
               /\ UNCHANGED ropeProjects
               /\ IF target_action.kind = "edit"
                    THEN /\ disk' = done.disk
                         /\ call' =
                              IF done.raised
                                THEN [got EXCEPT !.status = "error",
                                        !.error = "exception",
                                        !.backendField = "pyright",
                                        !.written = done.written,
                                        !.failed = done.failed]
                                ELSE [got EXCEPT !.status = "ok",
                                        !.servedBy = "pyright",
                                        !.response = "Applied workspace edit",
                                        !.written = done.written]
                    ELSE /\ UNCHANGED disk
                         /\ call' =
                              IF target_action.kind = ""
                                THEN [got EXCEPT !.status = "error",
                                        !.error = "Action not found"]
                              ELSE IF target_action.kind = "command"
                                THEN [got EXCEPT !.status = "error",
                                        !.error = "Command execution not yet supported"]
                              ELSE [got EXCEPT !.status = "ok",
                                        !.servedBy = "pyright",
                                        !.response = "Action executed (no-op?)"]

\* server.search: the path is optional; ripgrep runs outside any try-block.
search(path, raises) ==
  LET r == resolve_file_path(path)
      c == Called("search", path, "")
      search_path == IF path # NoPath THEN r.path ELSE activeWorkspace
  IN  /\ UNCHANGED <<activeWorkspace, cfgVars, pyVars>>
      /\ IF path # NoPath /\ r.error # ""
           THEN raises = "none" /\ return_error(c, r)
           ELSE /\ raises \in {"none", "ripgrep"}
                /\ UNCHANGED sessVars
                /\ call' =
                     IF raises = "ripgrep"
                       THEN [c EXCEPT !.status = "raised", !.resolved = search_path,
                               !.effects = <<Eff("get_search", search_path)>>]
                       ELSE [c EXCEPT !.status = "ok", !.resolved = search_path,
                               !.servedBy = "ripgrep", !.backendField = "ripgrep",
                               !.effects = <<Eff("get_search", search_path)>>]

\* ------------------------------------------------------ backend preferences

\* The tool argument of ServerConfig.set_backend when it is None.
None == "<None>"

\* ServerConfig.set_backend dropping the overrides when it sets the default.
ServerConfig_set_backend_clears(backend, tool) ==
  IF tool = None
    THEN default_backend' = backend /\ tool_backends' = EmptyMap
  ELSE IF tool \in SHARED_TOOLS
    THEN /\ tool_backends' =
              [t \in DOMAIN tool_backends \cup {tool} |->
                 IF t = tool THEN backend ELSE tool_backends[t]]
         /\ UNCHANGED default_backend
  ELSE UNCHANGED <<default_backend, tool_backends>>

\* ServerConfig.set_backend
ServerConfig_set_backend(backend, tool) ==
  IF tool = None
    THEN default_backend' = backend /\ UNCHANGED tool_backends
  ELSE IF tool \in SHARED_TOOLS
    THEN /\ tool_backends' =
              [t \in DOMAIN tool_backends \cup {tool} |->
                 IF t = tool THEN backend ELSE tool_backends[t]]
         /\ UNCHANGED default_backend
  ELSE UNCHANGED <<default_backend, tool_backends>>

\* ServerConfig.set_all_backends leaving the overrides in place.
ServerConfig_set_all_backends_keeps(backend) ==
  /\ default_backend' = backend
  /\ UNCHANGED tool_backends

\* ServerConfig.set_all_backends
ServerConfig_set_all_backends(backend) ==
  /\ default_backend' = backend
  /\ tool_backends' = EmptyMap

\* set_backend taking a tool it does not know as no tool at all.
set_backend_unknown_tool_sets_all(backend, tool) ==
  LET c == [Called("set_backend", NoPath, backend) EXCEPT !.tool = tool]
  IN  /\ UNCHANGED <<activeWorkspace, sessVars, pyVars>>
      /\ _config' = "ServerConfig"
      /\ IF lower(backend) \notin Backends
           THEN /\ call' = [c EXCEPT !.status = "error",
                                        !.error = "Invalid backend"]
                /\ UNCHANGED <<default_backend, tool_backends>>
         ELSE IF tool \in SHARED_TOOLS
           THEN /\ ServerConfig_set_backend(lower(backend), tool)
                /\ call' = [c EXCEPT !.status = "ok"]
           ELSE /\ ServerConfig_set_all_backends(lower(backend))
                /\ call' = [c EXCEPT !.status = "ok"]

\* server.set_backend ("": the tool argument is omitted)
set_backend(backend, tool) ==
  LET c == [Called("set_backend", NoPath, backend) EXCEPT !.tool = tool]
  IN  /\ UNCHANGED <<activeWorkspace, sessVars, pyVars>>
      /\ _config' = "ServerConfig"
      /\ IF lower(backend) \notin Backends
           THEN /\ call' = [c EXCEPT !.status = "error",
                                        !.error = "Invalid backend"]
                /\ UNCHANGED <<default_backend, tool_backends>>
         ELSE IF tool # ""
           THEN IF tool \notin SHARED_TOOLS
                  THEN /\ call' = [c EXCEPT !.status = "error",
                                               !.error = "Invalid tool"]
                       /\ UNCHANGED <<default_backend, tool_backends>>
                  ELSE /\ ServerConfig_set_backend(lower(backend), tool)
                       /\ call' = [c EXCEPT !.status = "ok"]
           ELSE /\ ServerConfig_set_all_backends(lower(backend))
                /\ call' = [c EXCEPT !.status = "ok"]

\* get_env of from_env: the first prefix whose variable is not empty gives
\* the value, lowered; "" stands for None.
get_env(env, suffix) ==
  IF lower(env[<<ENV_PREFIXES[1], suffix>>]) # ""
    THEN lower(env[<<ENV_PREFIXES[1], suffix>>])
    ELSE lower(env[<<ENV_PREFIXES[2], suffix>>])

\* from_env reading a variable for the exclusive tools as well.
from_env_every_tool(env) ==
  LET default == IF get_env(env, "BACKEND") # "" THEN get_env(env, "BACKEND")
                 ELSE "rope"
      set == {t \in SHARED_TOOLS \cup ROPE_ONLY_TOOLS \cup PYRIGHT_ONLY_TOOLS :
                get_env(env, tool_suffix(t)) \in {"rope", "pyright"}}
  IN  [default_backend |-> IF default \in {"rope", "pyright"} THEN default
                           ELSE "rope",
       tool_backends |-> [t \in set |-> get_env(env, tool_suffix(t))]]

\* ServerConfig.from_env
from_env(env) ==
  LET default == IF get_env(env, "BACKEND") # "" THEN get_env(env, "BACKEND")
                 ELSE "rope"
      set == {t \in SHARED_TOOLS :
                get_env(env, tool_suffix(t)) \in {"rope", "pyright"}}
  IN  [default_backend |-> IF default \in {"rope", "pyright"} THEN default
                           ELSE "rope",
       tool_backends |-> [t \in set |-> get_env(env, tool_suffix(t))]]

\* config.get_config on first use: _config is None, so the configuration is
\* built from the environment the process was started with.
get_config(env) ==
  /\ _config = "None"
  /\ _config' = "ServerConfig"
  /\ default_backend' = from_env(env).default_backend
  /\ tool_backends' = from_env(env).tool_backends
  /\ call' = [Called("get_config", NoPath, "") EXCEPT !.status = "ok",
                                                       !.env = env]
  /\ UNCHANGED <<activeWorkspace, pyVars, sessVars>>

\* ------------------------------------------------------ interpreter bindings

\* Files the interpreter setter is pointed at: Path.exists, os.access(X_OK).
ExistingFiles == {"/usr/bin/python3", "/opt/venv/bin/python", "/a/notes.txt"}
ExecutableFiles == {"/usr/bin/python3", "/opt/venv/bin/python"}

\* The setter that keeps the interpreter as the global override as well.
set_python_path_sets_global_too(python_path, workspace) ==
  LET c == [Called("set_python_path", workspace, "") EXCEPT
              !.python_path = python_path]
  IN  /\ UNCHANGED <<activeWorkspace, sessVars, cfgVars>>
      /\ IF python_path \notin ExistingFiles
           THEN /\ call' = [c EXCEPT !.status = "error",
                                        !.error = "does not exist"]
                /\ UNCHANGED pyVars
         ELSE IF python_path \notin ExecutableFiles
           THEN /\ call' = [c EXCEPT !.status = "error",
                                        !.error = "not executable"]
                /\ UNCHANGED pyVars
         ELSE IF workspace # NoPath
           THEN /\ python_paths' =
                     [w \in DOMAIN python_paths \cup {abspath(workspace)} |->
                        IF w = abspath(workspace) THEN python_path
                        ELSE python_paths[w]]
                /\ global_python_path' = python_path
                /\ call' = [c EXCEPT !.status = "ok",
                                        !.resolved = abspath(workspace)]
           ELSE /\ global_python_path' = python_path
                /\ UNCHANGED python_paths
                /\ call' = [c EXCEPT !.status = "ok"]

\* The setter without the os.access(X_OK) check.
set_python_path_unchecked(python_path, workspace) ==
  LET c == [Called("set_python_path", workspace, "") EXCEPT
              !.python_path = python_path]
  IN  /\ UNCHANGED <<activeWorkspace, sessVars, cfgVars>>
      /\ IF python_path \notin ExistingFiles
           THEN /\ call' = [c EXCEPT !.status = "error",
                                        !.error = "does not exist"]
                /\ UNCHANGED pyVars
         ELSE IF workspace # NoPath
           THEN /\ python_paths' =
                     [w \in DOMAIN python_paths \cup {abspath(workspace)} |->
                        IF w = abspath(workspace) THEN python_path
                        ELSE python_paths[w]]
                /\ UNCHANGED global_python_path
                /\ call' = [c EXCEPT !.status = "ok",
                                        !.resolved = abspath(workspace)]
           ELSE /\ global_python_path' = python_path
                /\ UNCHANGED python_paths
                /\ call' = [c EXCEPT !.status = "ok"]

\* config.set_python_path, called by server.set_python_path
set_python_path(python_path, workspace) ==
  LET c == [Called("set_python_path", workspace, "") EXCEPT
              !.python_path = python_path]
  IN  /\ UNCHANGED <<activeWorkspace, sessVars, cfgVars>>
      /\ IF python_path \notin ExistingFiles
           THEN /\ call' = [c EXCEPT !.status = "error",
                                        !.error = "does not exist"]
                /\ UNCHANGED pyVars
         ELSE IF python_path \notin ExecutableFiles
           THEN /\ call' = [c EXCEPT !.status = "error",
                                        !.error = "not executable"]
                /\ UNCHANGED pyVars
         ELSE IF workspace # NoPath
           THEN /\ python_paths' =
                     [w \in DOMAIN python_paths \cup {abspath(workspace)} |->
                        IF w = abspath(workspace) THEN python_path
                        ELSE python_paths[w]]
                /\ UNCHANGED global_python_path
                /\ call' = [c EXCEPT !.status = "ok",
                                        !.resolved = abspath(workspace)]
           ELSE /\ global_python_path' = python_path
                /\ UNCHANGED python_paths
                /\ call' = [c EXCEPT !.status = "ok"]

\* sys.executable, the interpreter running the gateway.
sys_executable == <<"/usr/local/bin/python3">>

\* Path.exists
exists(fs, path) == kernelPath(path) \in fs.files

\* Path(a) / b, as str() gives it.
Path_div(a, b) == Path_str(join(a, b))

Found(path) == [raised |-> FALSE, found |-> TRUE, path |-> path]
NotFound == [raised |-> FALSE, found |-> FALSE, path |-> NoPath]
Raised == [raised |-> TRUE, found |-> FALSE, path |-> NoPath]

\* The venvPath + venv arm of _extract_python_path_from_pyright.
\* Path(venv_path) and venv_dir / venv_name throw TypeError for a value
\* that is not a string; null is falsy and ends the arm.
extract_venv(config, workspace_path, fs) ==
  LET truthy(v) == v.t = "number" \/ (v.t = "str" /\ v.s # <<>>)
  IN  IF ~(truthy(config.venvPath) /\ truthy(config.venv)) THEN NotFound
      ELSE IF config.venvPath.t # "str" \/ config.venv.t # "str" THEN Raised
      ELSE LET venv_dir == Path_div(Path_div(workspace_path, config.venvPath.s),
                                    config.venv.s)
               python_exe == Path_div(Path_div(venv_dir, <<"bin">>),
                                      <<"python">>)
           IN  IF exists(fs, python_exe) THEN Found(python_exe) ELSE NotFound

\* config._extract_python_path_from_pyright.  '"pythonPath" in config' and
\* config.get throw TypeError or AttributeError when config is not a dict,
\* Path(config["pythonPath"]) throws TypeError when the value is no string.
_extract_python_path_from_pyright(config, workspace_path, fs) ==
  IF config.t # "dict" THEN Raised
  ELSE IF config.pythonPath.t = "absent"
    THEN extract_venv(config, workspace_path, fs)
  ELSE IF config.pythonPath.t # "str" THEN Raised
  ELSE LET python_path == Path_div(workspace_path, config.pythonPath.s)
       IN  IF exists(fs, python_path) THEN Found(python_path)
           ELSE extract_venv(config, workspace_path, fs)

\* The pyproject.toml arm of find_pyright_python_path:
\* config.get("tool", {}).get("pyright", {}) throws AttributeError when
\* "tool" is not a table; only TOMLDecodeError and OSError are caught.
find_in_pyproject(workspace_path, fs) ==
  IF fs.toml.state # "parsed" THEN NotFound
  ELSE IF fs.toml.tool = "other" THEN Raised
  ELSE IF fs.toml.tool = "absent" THEN NotFound
  ELSE _extract_python_path_from_pyright(fs.toml.value, workspace_path, fs)

\* config.find_pyright_python_path: pyrightconfig.json, then pyproject.toml;
\* only JSONDecodeError and OSError are caught around the first.
find_pyright_python_path(workspace, fs) ==
  LET workspace_path == Path_str(workspace)
      j == IF fs.json.state # "parsed" THEN NotFound
           ELSE _extract_python_path_from_pyright(fs.json.value,
                                                  workspace_path, fs)
  IN  IF j.raised \/ j.found THEN j
      ELSE find_in_pyproject(workspace_path, fs)

\* find_venv_python_path taking the first directory that exists.
find_venv_python_path_dir_exists(workspace, fs) ==
  LET dir(d) == Path_div(Path_str(workspace), d)
      exe(d) == Path_div(Path_div(dir(d), <<"bin">>), <<"python">>)
  IN  IF exists(fs, dir(<<".venv">>)) THEN Found(exe(<<".venv">>))
      ELSE IF exists(fs, dir(<<"venv">>)) THEN Found(exe(<<"venv">>))
      ELSE IF exists(fs, dir(<<"env">>)) THEN Found(exe(<<"env">>))
      ELSE NotFound

\* config.find_venv_python_path: .venv, venv, env under the workspace.
find_venv_python_path(workspace, fs) ==
  LET exe(d) == Path_div(Path_div(Path_div(Path_str(workspace), d),
                                  <<"bin">>), <<"python">>)
  IN  IF exists(fs, exe(<<".venv">>)) THEN Found(exe(<<".venv">>))
      ELSE IF exists(fs, exe(<<"venv">>)) THEN Found(exe(<<"venv">>))
      ELSE IF exists(fs, exe(<<"env">>)) THEN Found(exe(<<"env">>))
      ELSE NotFound

\* The conventional directories looked through before the configuration.
get_python_path_for_workspace_venv_first(workspace, fs) ==
  LET ws == abspath(workspace)
      pyright_path == find_pyright_python_path(ws, fs)
      venv_path == find_venv_python_path(ws, fs)
  IN  IF ws \in DOMAIN python_paths THEN Found(<<python_paths[ws]>>)
      ELSE IF global_python_path # "" THEN Found(<<global_python_path>>)
      ELSE IF venv_path.found THEN venv_path
      ELSE IF pyright_path.raised THEN Raised
      ELSE IF pyright_path.found THEN pyright_path
      ELSE Found(sys_executable)

\* The workspace looked up as it is spelled, without abspath.
get_python_path_for_workspace_as_spelled(workspace, fs) ==
  LET ws == workspace
      pyright_path == find_pyright_python_path(ws, fs)
      venv_path == find_venv_python_path(ws, fs)
  IN  IF ws \in DOMAIN python_paths THEN Found(<<python_paths[ws]>>)
      ELSE IF global_python_path # "" THEN Found(<<global_python_path>>)
      ELSE IF pyright_path.raised THEN Raised
      ELSE IF pyright_path.found THEN pyright_path
      ELSE IF venv_path.found THEN venv_path
      ELSE Found(sys_executable)

\* The body of config.get_python_path_for_workspace over the overrides it
\* reads.  An override is a string kept whole, as a path of one element.
python_path_for(overrides, global_override, workspace, fs) ==
  LET ws == abspath(workspace)
      pyright_path == find_pyright_python_path(ws, fs)
      venv_path == find_venv_python_path(ws, fs)
  IN  IF ws \in DOMAIN overrides THEN Found(<<overrides[ws]>>)
      ELSE IF global_override # "" THEN Found(<<global_override>>)
      ELSE IF pyright_path.raised THEN Raised
      ELSE IF pyright_path.found THEN pyright_path
      ELSE IF venv_path.found THEN venv_path
      ELSE Found(sys_executable)

\* config.get_python_path_for_workspace.
get_python_path_for_workspace(workspace, fs) ==
  python_path_for(python_paths, global_python_path, workspace, fs)

\* server.status: reads the registries and the configuration.
status ==
  /\ call' = [Called("status", NoPath, "") EXCEPT !.status = "ok"]
  /\ _config' = "ServerConfig"
  /\ UNCHANGED <<activeWorkspace, sessVars, default_backend, tool_backends,
                 pyVars>>

\* reload_modules: importlib.reload(config) runs the module body again in the
\* namespace the handlers read, so _config, _python_paths,
\* _global_python_path and _active_workspace are back at their initial
\* values; the sessions that were opened stay open.  errors: a module after
\* config throws in importlib.reload; the except arm notes it and the answer
\* has "success": false.
reload_modules(errors) ==
  /\ activeWorkspace' = NoPath
  /\ _config' = "None"
  /\ default_backend' = "rope"
  /\ tool_backends' = EmptyMap
  /\ python_paths' = EmptyMap
  /\ global_python_path' = ""
  /\ call' = [Called("reload_modules", NoPath, "") EXCEPT
                !.status = IF errors THEN "error" ELSE "ok",
                !.error = IF errors THEN "reload" ELSE ""]
  /\ UNCHANGED sessVars

\* ----------------------------------------------------------- specification

\* Calls are dispatched one at a time (mcp.run): a handler runs when the
\* server is idle, and its answer is handed to the caller before the next.
Idle == call = NoCall

respond ==
  /\ call # NoCall
  /\ call' = NoCall
  /\ lastSwitch' =
       IF call.op = "switch_workspace" /\ call.status = "ok"
         THEN [lastSwitch EXCEPT !.some = TRUE, !.path = call.path]
         ELSE [lastSwitch EXCEPT !.some = FALSE, !.path = NoPath]
  /\ UNCHANGED <<activeWorkspace, cfgVars, pyVars, sessVars, reqs, disk>>

\* The arguments the tool calls are given.
SwitchPaths == { <<"/", "a">>, <<"a">>, <<"/", "a", "a">> }

ToolPaths ==
  { <<"b">>,              \* relative
    <<"/", "a", "b">>,    \* beside /a, sharing its prefix
    <<"/", "b">> }

BackendArgs == {"", "rope", "PYRIGHT", "ruff"}
ToolArgs == {"", "hover", "rename", "diagnostics", "grep"}
PythonPathArgs == {"/usr/bin/python3", "/a/notes.txt", "/missing/python"}

SwitchStep ==
  /\ Idle
  /\ \E p \in SwitchPaths, r \in {"none", "close_lsp_clients", "close_all"} :
    /\ switch_workspace(p, r)
    /\ UNCHANGED <<lastSwitch, reqs, disk>>

SharedStep ==
  /\ Idle
  /\ \E f \in ToolPaths, b \in BackendArgs,
       r \in {"none", "get_lsp_client", "client", "rope"} :
    /\ \/ hover(f, b, r)
       \/ definition(f, b, r)
       \/ references(f, b, r)
       \/ completions(f, b, r)
       \/ symbols(f, b, r)
    /\ UNCHANGED <<lastSwitch, reqs, disk>>

RopeStep ==
  /\ Idle
  /\ \E f \in ToolPaths, r \in {"none", "rope"} :
    /\ \/ rename(f, r)
       \/ move(f, r)
       \/ change_signature(f, r)
       \/ function_signature(f, r)
    /\ UNCHANGED <<lastSwitch, reqs, disk>>

LspStep ==
  /\ Idle
  /\ \E f \in ToolPaths, r \in {"none", "get_lsp_client", "client"} :
    /\ \/ diagnostics(f, r)
       \/ signature_help(f, r)
       \/ update_document(f, r)
       \/ inlay_hints(f, r)
       \/ code_action(f, r)
    /\ UNCHANGED <<lastSwitch, reqs, disk>>

\* An edit of /f that cannot be applied: the insertion on line 1 is made in
\* memory, then the position on line 0 lies beyond the end of the line.
FailingChanges ==
  << [uri |-> "file:///f",
      text_edits |->
        << [range |-> [start |-> [line |-> 1, character |-> 0],
                       end |-> [line |-> 1, character |-> 0]],
            newText |-> <<"a">>],
           [range |-> [start |-> [line |-> 0, character |-> 5],
                       end |-> [line |-> 0, character |-> 5]],
            newText |-> <<"a">>] >>] >>

\* The code actions the language server offers in the main specification:
\* an edit that names no file, and one that fails.
OfferedActions ==
  {NoAction, CodeAction("edit", <<>>), CodeAction("edit", FailingChanges),
   CodeAction("command", <<>>), CodeAction("other", <<>>)}

RunCodeActionStep ==
  /\ Idle
  /\ \E f \in ToolPaths, r \in {"none", "get_lsp_client", "client"},
        a \in OfferedActions :
    /\ r # "none" => a = NoAction
    /\ run_code_action(f, r, a)
    /\ UNCHANGED <<lastSwitch, reqs>>

SearchStep ==
  /\ Idle
  /\ \E f \in ToolPaths \cup {NoPath}, r \in {"none", "ripgrep"} :
    /\ search(f, r)
    /\ UNCHANGED <<lastSwitch, reqs, disk>>

SetBackendStep ==
  /\ Idle
  /\ \E b \in BackendArgs, t \in ToolArgs :
    /\ set_backend(b, t)
    /\ UNCHANGED <<lastSwitch, reqs, disk>>

\* A binding for /a; the global override is set where discovery is followed.
SetPythonPathStep ==
  /\ Idle
  /\ \E p \in PythonPathArgs, w \in { <<"/", "a">> } :
    /\ set_python_path(p, w)
    /\ UNCHANGED <<lastSwitch, reqs, disk>>

StatusStep ==
  /\ Idle
  /\ status
  /\ UNCHANGED <<lastSwitch, reqs, disk>>

ReloadStep ==
  /\ Idle
  /\ \E errors \in BOOLEAN : reload_modules(errors)
  /\ UNCHANGED <<lastSwitch, reqs, disk>>

Next ==
  \/ SwitchStep
  \/ SharedStep
  \/ RopeStep
  \/ LspStep
  \/ RunCodeActionStep
  \/ SearchStep
  \/ SetBackendStep
  \/ SetPythonPathStep
  \/ StatusStep
  \/ ReloadStep
  \/ respond

Spec == Init /\ [][Next]_vars

\* --------------------------------- sessions after a switch of workspace

\* A call returns, and the workspace of a successful switch_workspace is
\* noted until the next one returns.
SessionsReturn ==
  /\ call # NoCall
  /\ call' = NoCall
  /\ lastSwitch' =
       IF call.op = "switch_workspace" /\ call.status = "ok"
         THEN [some |-> TRUE, path |-> call.path,
               switched |-> call.resolved]
         ELSE [some |-> FALSE, path |-> NoPath,
               switched |-> lastSwitch.switched]
  /\ UNCHANGED <<activeWorkspace, cfgVars, pyVars, sessVars, reqs, disk>>

\* switch_workspace, every tool that asks for a language-server client, and
\* the tools that change what the handlers read.
SessionsNext ==
  \/ SwitchStep
  \/ SharedStep
  \/ LspStep
  \/ RunCodeActionStep
  \/ SetBackendStep
  \/ ReloadStep
  \/ SessionsReturn

SpecSessions == Init /\ [][SessionsNext]_vars

\* ------------------------------------------- the path functions on their own

\* config.resolve_file_path called on its own: what it returns.
resolve_file_path_call(file_path) ==
  LET r == resolve_file_path(file_path)
      c == Called("resolve_file_path", file_path, "")
  IN  /\ call' = [c EXCEPT !.status = IF r.error = "" THEN "ok" ELSE "error",
                           !.error = r.error,
                           !.resolved = r.path,
                           !.message = r.message,
                           !.current_workspace = r.current_workspace,
                           !.resolved_path = r.resolved_path]
      /\ UNCHANGED <<activeWorkspace, sessVars, cfgVars, pyVars>>

\* config.is_file_in_workspace called on its own.
is_file_in_workspace_call(file_path) ==
  /\ call' = [Called("is_file_in_workspace", file_path, "") EXCEPT
                !.status = "ok", !.flag = is_file_in_workspace(file_path)]
  /\ UNCHANGED <<activeWorkspace, sessVars, cfgVars, pyVars>>

PathsSwitch ==
  /\ Idle
  /\ \E p \in PathStrings :
    /\ switch_workspace(p, "none")
    /\ UNCHANGED <<lastSwitch, reqs, disk>>

PathsResolve ==
  /\ Idle
  /\ \E p \in PathStrings :
    /\ resolve_file_path_call(p)
    /\ UNCHANGED <<lastSwitch, reqs, disk>>

PathsInWorkspace ==
  /\ Idle
  /\ \E p \in PathStrings :
    /\ is_file_in_workspace_call(p)
    /\ UNCHANGED <<lastSwitch, reqs, disk>>

PathsReturn ==
  /\ call # NoCall
  /\ call' = NoCall
  /\ UNCHANGED <<activeWorkspace, cfgVars, pyVars, sessVars, lastSwitch, reqs,
                 disk>>

PathsNext == PathsSwitch \/ PathsResolve \/ PathsInWorkspace \/ PathsReturn

SpecPaths == Init /\ [][PathsNext]_vars

\* --------------------------------------------- workspace edits on their own

\* The positions, edits and edit lists a code action may carry.
Positions == [line : 0..MaxLine, character : 0..MaxChar]

Ranges ==
  {rg \in [start : Positions, end : Positions] :
     \/ rg.start.line < rg["end"].line
     \/ /\ rg.start.line = rg["end"].line
        /\ rg.start.character <= rg["end"].character}

NewTexts == {<<>>, <<"a">>, <<NL>>}

TextEdits == [range : Ranges, newText : NewTexts]

EditLists == UNION {[1..n -> TextEdits] : n \in 0..MaxEdits}

\* The edit the second file is given: its first character is replaced.
OtherEdit ==
  [range |-> [start |-> [line |-> 0, character |-> 0],
              end |-> [line |-> 0, character |-> 1]],
   newText |-> <<"a">>]

Change(uri, text_edits) == [uri |-> uri, text_edits |-> text_edits]

\* edit["changes"]: the first file alone, or with the second file before or
\* after it.
ChangesOf(text_edits) ==
  { <<Change("file:///f", text_edits)>>,
    <<Change("file:///f", text_edits), Change("file:///g", <<OtherEdit>>)>>,
    <<Change("file:///g", <<OtherEdit>>), Change("file:///f", text_edits)>> }

\* The contents the files are found with.
RECURSIVE Texts(_)
Texts(n) ==
  IF n = 0 THEN {<<>>}
  ELSE Texts(n - 1) \cup
       {Append(t, ch) : t \in {u \in Texts(n - 1) : Len(u) = n - 1},
                        ch \in {"a", NL}}

Contents == Texts(MaxContentLen)

\* Another program writes or removes a file between two tool calls.
fs_change ==
  /\ Idle
  /\ \/ \E f \in {Missing} \cup {File(t) : t \in Contents} :
          disk' = [disk EXCEPT !["/f"] = f]
     \/ \E f \in {Missing, File(<<"a", NL, "a">>)} :
          disk' = [disk EXCEPT !["/g"] = f]
  /\ disk' # disk
  /\ UNCHANGED <<activeWorkspace, cfgVars, pyVars, sessVars, call, lastSwitch,
                 reqs>>

EditsRunCodeAction ==
  /\ Idle
  /\ \E text_edits \in EditLists :
       \E changes \in ChangesOf(text_edits) :
         /\ run_code_action(<<"/", "f">>, "none", CodeAction("edit", changes))
         /\ \A f \in Files : Len(disk'[f].content) <= MaxContentLen
         /\ UNCHANGED <<lastSwitch, reqs>>

EditsNext == fs_change \/ EditsRunCodeAction \/ respond

SpecEdits == Init /\ [][EditsNext]_vars

\* ---------------------------------------- interpreter discovery on its own

\* What the keys of a configuration table hold.
PythonPathValues ==
  {Absent, Null, Number, Str(<<"py">>), Str(<<"/", "opt", "/", "py">>)}
VenvPathValues == {Absent, Null, Number, Str(<<".">>)}
VenvValues == {Absent, Number, Str(<<"myenv">>)}

\* pyrightconfig.json of the workspace.
JsonFiles ==
  {NoFile, ConfigFile("unreadable", "absent", EmptyTable),
   ConfigFile("invalid", "absent", EmptyTable),
   ConfigFile("parsed", "absent", NotATable)}
  \cup {ConfigFile("parsed", "absent", Table(pp, vp, v)) :
          pp \in PythonPathValues, vp \in VenvPathValues, v \in VenvValues}

\* pyproject.toml of the workspace, and its [tool.pyright] table.
TomlFiles ==
  {NoFile, ConfigFile("unreadable", "absent", EmptyTable),
   ConfigFile("invalid", "absent", EmptyTable),
   ConfigFile("parsed", "absent", EmptyTable),
   ConfigFile("parsed", "other", EmptyTable)}
  \cup {ConfigFile("parsed", "dict", v) :
          v \in {EmptyTable, NotATable,
                  Table(Absent, Str(<<".">>), Str(<<"myenv">>)),
                  Table(Str(<<"py">>), Absent, Absent),
                  Table(Number, Absent, Absent)}}

\* The interpreter files that may exist.
InterpreterFiles ==
  { <<"/", "a", "/", "py">>,
    <<"/", "opt", "/", "py">>,
    <<"/", "a", "/", "myenv", "/", "bin", "/", "python">>,
    <<"/", "a", "/", ".venv", "/", "bin", "/", "python">>,
    <<"/", "a", "/", "venv", "/", "bin", "/", "python">> }

FsStates ==
  [json : JsonFiles, toml : TomlFiles, files : SUBSET InterpreterFiles]

\* The workspace as callers spell it: /a twice, and another one.
WorkspaceArgs == { <<"/", "a">>, <<"/", "a", "/">>, <<"/", "b">> }

\* A call of config.get_python_path_for_workspace, as the rope client makes
\* when it opens a project.
get_python_path_for_workspace_call(workspace, fs) ==
  LET r == get_python_path_for_workspace(workspace, fs)
      c == [Called("get_python_path_for_workspace", workspace, "") EXCEPT
              !.fs = fs]
  IN  /\ call' = IF r.raised THEN [c EXCEPT !.status = "raised"]
                 ELSE [c EXCEPT !.status = "ok", !.located = r.path]
      /\ UNCHANGED <<activeWorkspace, cfgVars, pyVars, sessVars, lastSwitch,
                     reqs, disk>>

InterpLocate ==
  /\ Idle
  /\ \E w \in WorkspaceArgs, fs \in FsStates :
       get_python_path_for_workspace_call(w, fs)

InterpSetPythonPath ==
  /\ Idle
  /\ \E p \in PythonPathArgs,
        w \in {NoPath, <<"/", "a">>, <<"/", "a", "/">>} :
    /\ set_python_path(p, w)
    /\ UNCHANGED <<lastSwitch, reqs, disk>>

InterpNext == InterpLocate \/ InterpSetPythonPath \/ respond

SpecInterp == Init /\ [][InterpNext]_vars

\* ------------------------------- conventional environments on their own

\* What there may be of a conventional environment d under /a: nothing, the
\* directory, its bin directory too, the interpreter too.
VenvLevels(d) ==
  LET dir == <<"/", "a", "/", d>>
  IN  {{}, {dir}, {dir, dir \o <<"/", "bin">>},
       {dir, dir \o <<"/", "bin">>, dir \o <<"/", "bin", "/", "python">>}}

VenvFsStates ==
  {[NoFs EXCEPT !.files = a \cup b \cup c] :
     a \in VenvLevels(".venv"), b \in VenvLevels("venv"),
     c \in VenvLevels("env")}

\* A call of config.find_venv_python_path.
find_venv_python_path_call(workspace, fs) ==
  /\ call' = [Called("find_venv_python_path", workspace, "") EXCEPT
                !.fs = fs, !.status = "ok",
                !.located = find_venv_python_path(workspace, fs).path]
  /\ UNCHANGED <<activeWorkspace, cfgVars, pyVars, sessVars, lastSwitch,
                 reqs, disk>>

VenvLocate ==
  /\ Idle
  /\ \E w \in WorkspaceArgs, fs \in VenvFsStates :
       find_venv_python_path_call(w, fs)

VenvNext == VenvLocate \/ respond

SpecVenv == Init /\ [][VenvNext]_vars

\* ----------------------------------- overrides of several workspaces

\* Two interpreters that pass the setter's checks and one that does not.
BindPythonPathArgs ==
  {"/usr/bin/python3", "/opt/venv/bin/python", "/missing/python"}

\* The workspaces bindings are set for: none (the global override), /a in
\* two spellings, and /b.
BindWorkspaceArgs == {NoPath} \cup WorkspaceArgs

\* Workspaces with nothing to discover, with a conventional environment,
\* and with a pyrightconfig.json that names an interpreter.
BindFsStates ==
  [json : {NoFile,
           ConfigFile("parsed", "absent",
                      Table(Str(<<"py">>), Absent, Absent))},
   toml : {NoFile},
   files : SUBSET { <<"/", "a", "/", "py">>,
                    <<"/", "a", "/", ".venv", "/", "bin", "/", "python">> }]

BindSet ==
  /\ Idle
  /\ \E p \in BindPythonPathArgs, w \in BindWorkspaceArgs :
       /\ set_python_path(p, w)
       /\ UNCHANGED <<lastSwitch, reqs, disk>>

BindLocate ==
  /\ Idle
  /\ \E w \in WorkspaceArgs, fs \in BindFsStates :
       get_python_path_for_workspace_call(w, fs)

BindNext == BindSet \/ BindLocate \/ respond

SpecBind == Init /\ [][BindNext]_vars

\* ------------------------------------- configuration from the environment

\* What a variable may hold: nothing, a backend in either case, another word.
EnvValues == {"", "rope", "PYRIGHT", "ruff"}

\* The variables given a value: BACKEND, HOVER_BACKEND and SYMBOLS_BACKEND
\* under both prefixes.
VariedNames ==
  {ENV_PREFIXES[1], ENV_PREFIXES[2]}
    \X {"BACKEND", "HOVER_BACKEND", "SYMBOLS_BACKEND"}

Envs ==
  {[n \in EnvNames |-> IF n \in VariedNames THEN e[n] ELSE ""] :
     e \in [VariedNames -> EnvValues]}

\* The process starts with an environment and builds its configuration.
EnvStart ==
  /\ Idle
  /\ \E env \in Envs : get_config(env)
  /\ UNCHANGED <<lastSwitch, reqs, disk>>

EnvNext == EnvStart \/ respond

SpecEnv == Init /\ [][EnvNext]_vars

\* ------------------------------------------ the backend choice on its own

\* server._get_effective_backend called on its own: what it returns.
get_effective_backend_call(tool, backend) ==
  /\ call' = [Called("_get_effective_backend", NoPath, backend) EXCEPT
                !.tool = tool, !.status = "ok",
                !.servedBy = _get_effective_backend(tool, backend)]
  /\ _config' = config_after_effective_backend(backend)
  /\ UNCHANGED <<activeWorkspace, sessVars, default_backend, tool_backends,
                 pyVars>>

EffectiveTools == {"hover", "symbols", "rename", "diagnostics", "signature_help"}

BackendChoice ==
  /\ Idle
  /\ \E t \in EffectiveTools, b \in BackendArgs :
    /\ get_effective_backend_call(t, b)
    /\ UNCHANGED <<lastSwitch, reqs, disk>>

\* The two mutators of ServerConfig called on their own.
ServerConfig_set_backend_call(backend, tool) ==
  /\ ServerConfig_set_backend(backend, tool)
  /\ _config' = "ServerConfig"
  /\ call' = [Called("ServerConfig.set_backend", NoPath, backend) EXCEPT
                !.tool = tool, !.status = "ok"]
  /\ UNCHANGED <<activeWorkspace, sessVars, pyVars>>

ServerConfig_set_all_backends_call(backend) ==
  /\ ServerConfig_set_all_backends(backend)
  /\ _config' = "ServerConfig"
  /\ call' = [Called("ServerConfig.set_all_backends", NoPath, backend) EXCEPT
                !.status = "ok"]
  /\ UNCHANGED <<activeWorkspace, sessVars, pyVars>>

ConfigToolArgs == {None, "hover", "symbols", "rename", "grep"}

ConfigSetBackend ==
  /\ Idle
  /\ \E b \in Backends, t \in ConfigToolArgs :
    /\ ServerConfig_set_backend_call(b, t)
    /\ UNCHANGED <<lastSwitch, reqs, disk>>

ConfigSetAllBackends ==
  /\ Idle
  /\ \E b \in Backends :
    /\ ServerConfig_set_all_backends_call(b)
    /\ UNCHANGED <<lastSwitch, reqs, disk>>

BackendNext ==
  \/ SetBackendStep
  \/ ConfigSetBackend
  \/ ConfigSetAllBackends
  \/ BackendChoice
  \/ PathsReturn

SpecBackend == Init /\ [][BackendNext]_vars

\* ------------------------------------- every way an override is stored

\* Variables of a shared tool and of the three exclusive tools.
OverrideNames ==
  { <<ENV_PREFIXES[1], "HOVER_BACKEND">>,
    <<ENV_PREFIXES[1], "RENAME_BACKEND">>,
    <<ENV_PREFIXES[2], "DIAGNOSTICS_BACKEND">>,
    <<ENV_PREFIXES[2], "SIGNATURE_HELP_BACKEND">> }

OverrideEnvs ==
  {[n \in EnvNames |-> IF n \in OverrideNames THEN e[n] ELSE ""] :
     e \in [OverrideNames -> {"", "rope", "PYRIGHT"}]}

\* The configuration is built from the environment, then the tool and the
\* two mutators change it.
OverridesStart ==
  /\ Idle
  /\ \E env \in OverrideEnvs : get_config(env)
  /\ UNCHANGED <<lastSwitch, reqs, disk>>

OverridesNext ==
  \/ OverridesStart
  \/ SetBackendStep
  \/ ConfigSetBackend
  \/ ConfigSetAllBackends
  \/ PathsReturn

SpecOverrides == Init /\ [][OverridesNext]_vars

\* --------------------------------------------- calls that run concurrently

\* The handlers take no lock: when the host runs two calls at once, the
\* statements of switch_workspace and of a language-server tool (diagnostics
\* and the handlers of its shape) interleave.  One action per statement that
\* reads or writes the shared state; reqs[i].pc is the statement call i is at.

conc_begin(i, op, path) ==
  /\ reqs[i].pc = "idle"
  /\ reqs' = [reqs EXCEPT ![i] = [IdleReq EXCEPT !.op = op, !.path = path,
                                                 !.pc = "start"]]
  /\ UNCHANGED <<cfgVars, pyVars, call, lastSwitch, disk, activeWorkspace, sessVars>>

\* switch_workspace: abs_path = os.path.abspath(path); os.path.isdir(abs_path)
conc_switch_validate(i) ==
  /\ reqs[i].op = "switch_workspace" /\ reqs[i].pc = "start"
  /\ reqs' = [reqs EXCEPT ![i] =
       IF isdir(abspath(reqs[i].path))
         THEN [@ EXCEPT !.abs = abspath(reqs[i].path), !.pc = "close_lsp_clients"]
         ELSE [@ EXCEPT !.status = "error", !.pc = "done"]]
  /\ UNCHANGED <<cfgVars, pyVars, call, lastSwitch, disk, activeWorkspace, sessVars>>

\* switch_workspace: close_lsp_clients()
conc_close_lsp_clients(i) ==
  /\ reqs[i].pc = "close_lsp_clients"
  /\ lspClients' = {}
  /\ reqs' = [reqs EXCEPT ![i].pc = "close_all"]
  /\ UNCHANGED <<cfgVars, pyVars, call, lastSwitch, disk, activeWorkspace, ropeProjects>>

\* switch_workspace: get_rope_client().close_all()
conc_close_all(i) ==
  /\ reqs[i].pc = "close_all"
  /\ ropeProjects' = {}
  /\ reqs' = [reqs EXCEPT ![i].pc = "set_active_workspace"]
  /\ UNCHANGED <<cfgVars, pyVars, call, lastSwitch, disk, activeWorkspace, lspClients>>

\* switch_workspace: new_workspace = set_active_workspace(abs_path)
conc_set_active_workspace(i) ==
  /\ reqs[i].pc = "set_active_workspace"
  /\ activeWorkspace' = abspath(reqs[i].abs)
  /\ reqs' = [reqs EXCEPT ![i].status = "ok", ![i].pc = "done"]
  /\ UNCHANGED <<cfgVars, pyVars, call, lastSwitch, disk, sessVars>>

\* diagnostics: abs_path, error = resolve_file_path(path)
conc_resolve_file_path(i) ==
  /\ reqs[i].op = "diagnostics" /\ reqs[i].pc = "start"
  /\ LET r == resolve_file_path(reqs[i].path)
     IN  reqs' = [reqs EXCEPT ![i] =
           IF r.error # ""
             THEN [@ EXCEPT !.status = "error", !.pc = "done"]
             ELSE [@ EXCEPT !.abs = r.path, !.wsAtResolve = activeWorkspace,
                            !.pc = "_find_workspace"]]
  /\ UNCHANGED <<cfgVars, pyVars, call, lastSwitch, disk, activeWorkspace, sessVars>>

\* diagnostics: workspace = _find_workspace(abs_path)
conc_find_workspace(i) ==
  /\ reqs[i].pc = "_find_workspace"
  /\ reqs' = [reqs EXCEPT ![i].ws = _find_workspace(reqs[i].abs),
                          ![i].pc = "get_lsp_client"]
  /\ UNCHANGED <<cfgVars, pyVars, call, lastSwitch, disk, activeWorkspace, sessVars>>

\* diagnostics: client = get_lsp_client(workspace)
conc_get_lsp_client(i) ==
  /\ reqs[i].pc = "get_lsp_client"
  /\ lspClients' = lspClients \cup {reqs[i].ws}
  /\ reqs' = [reqs EXCEPT ![i].pc = "client"]
  /\ UNCHANGED <<cfgVars, pyVars, call, lastSwitch, disk, activeWorkspace, ropeProjects>>

\* diagnostics: result = client.get_diagnostics(abs_path); a client that was
\* closed meanwhile throws, and the except arm answers the error.
conc_client(i) ==
  /\ reqs[i].pc = "client"
  /\ reqs' = [reqs EXCEPT ![i].status =
                 IF reqs[i].ws \in lspClients THEN "ok" ELSE "error",
                          ![i].pc = "done"]
  /\ UNCHANGED <<cfgVars, pyVars, call, lastSwitch, disk, activeWorkspace, sessVars>>

\* return json.dumps(...)
conc_return(i) ==
  /\ reqs[i].pc = "done"
  /\ reqs' = [reqs EXCEPT ![i] = IdleReq]
  /\ UNCHANGED <<cfgVars, pyVars, call, lastSwitch, disk, activeWorkspace, sessVars>>

ConcNext ==
  \/ \E i \in 1..MaxRequests, p \in SwitchPaths :
       conc_begin(i, "switch_workspace", p)
  \/ \E i \in 1..MaxRequests, f \in ToolPaths :
       conc_begin(i, "diagnostics", f)
  \/ \E i \in 1..MaxRequests : conc_switch_validate(i)
  \/ \E i \in 1..MaxRequests : conc_close_lsp_clients(i)
  \/ \E i \in 1..MaxRequests : conc_close_all(i)
  \/ \E i \in 1..MaxRequests : conc_set_active_workspace(i)
  \/ \E i \in 1..MaxRequests : conc_resolve_file_path(i)
  \/ \E i \in 1..MaxRequests : conc_find_workspace(i)
  \/ \E i \in 1..MaxRequests : conc_get_lsp_client(i)
  \/ \E i \in 1..MaxRequests : conc_client(i)
  \/ \E i \in 1..MaxRequests : conc_return(i)

SpecConc == Init /\ [][ConcNext]_vars

\* ------------------------------ backend preferences read and set concurrently

\* set_backend, status and _get_effective_backend take no lock either.  One
\* action per statement of theirs, of get_config and of the ServerConfig
\* methods that reads or writes config._config or a field of the object.

\* The order in which status walks SHARED_TOOLS: a set's order is fixed within
\* a process.
SharedToolOrder == <<"hover", "definition", "references", "completions", "symbols">>

PrefsOthers ==
  <<activeWorkspace, pyVars, sessVars, call, lastSwitch, disk>>

\* The fields of the object a reference refers to.
deref(r) ==
  IF r.kind = "displaced" THEN reqs[r.by].displaced
  ELSE ServerConfig(default_backend, tool_backends)

\* The object r refers to gets the fields c, and request i goes on at pc.
\* after: the fields the object has once the mutation is complete; every
\* request that holds the object and has not answered notes them.
store(i, r, c, after, pc) ==
  LET before == deref(r)
      noted(j) ==
        IF j # i /\ reqs[j].config = r
             /\ reqs[j].op \in {"status", "_get_effective_backend"}
             /\ reqs[j].pc \notin {"idle", "done", "raised"}
          THEN reqs[j].snaps \cup {after}
          ELSE reqs[j].snaps
  IN  /\ reqs' = [j \in DOMAIN reqs |->
                    [reqs[j] EXCEPT
                       !.pc = IF j = i THEN pc ELSE @,
                       !.status = IF j = i /\ pc = "done" THEN "ok" ELSE @,
                       !.pre = IF j # i THEN @
                               ELSE IF pc = "done" THEN IdleReq.pre ELSE before,
                       !.snaps = noted(j),
                       !.displaced =
                          IF r.kind = "displaced" /\ r.by = j THEN c ELSE @]]
      /\ IF r.kind = "global"
           THEN /\ default_backend' = c.default_backend
                /\ tool_backends' = c.tool_backends
           ELSE UNCHANGED <<default_backend, tool_backends>>
      /\ UNCHANGED _config

\* A call arrives: set_backend, status or _get_effective_backend.
prefs_begin(i, op, backend, tool) ==
  /\ reqs[i].pc = "idle"
  /\ op \in {"status", "set_backend"} =>
       Cardinality({j \in DOMAIN reqs : reqs[j].op = op}) < MaxSameCalls
  /\ reqs' = [reqs EXCEPT ![i] =
       [IdleReq EXCEPT !.op = op, !.backend = backend, !.tool = tool,
                       !.displaced = reqs[i].displaced,
                       !.pc = "get_config"]]
  /\ UNCHANGED <<cfgVars, PrefsOthers>>

\* get_config: if _config is None
get_config_is_none(i) ==
  /\ reqs[i].pc = "get_config"
  /\ reqs' = [reqs EXCEPT ![i].pc =
                 IF _config = "None" THEN "from_env" ELSE "return_config"]
  /\ UNCHANGED <<cfgVars, PrefsOthers>>

\* get_config: _config = ServerConfig.from_env().  The object _config
\* referred to stays with the requests that hold it.
get_config_from_env(i) ==
  /\ reqs[i].pc = "from_env"
  /\ _config' = "ServerConfig"
  /\ default_backend' = from_env(NoEnv).default_backend
  /\ tool_backends' = from_env(NoEnv).tool_backends
  /\ reqs' = [j \in DOMAIN reqs |->
       IF j = i
         THEN [reqs[j] EXCEPT
                 !.pc = "return_config",
                 !.displaced =
                    IF \E h \in DOMAIN reqs : reqs[h].config = GlobalRef
                      THEN ServerConfig(default_backend, tool_backends)
                      ELSE @]
       ELSE IF reqs[j].config = GlobalRef
         THEN [reqs[j] EXCEPT !.config = DisplacedRef(i)]
         ELSE reqs[j]]
  /\ UNCHANGED PrefsOthers

\* What a request that takes hold of an object now may be said to find: its
\* fields, or when a mutator is half-way through it, the fields before and
\* after that mutation.
found(i, r) ==
  LET halfway == {j \in DOMAIN reqs \ {i} :
                    reqs[j].config = r /\ reqs[j].pc = "clear"}
  IN  IF halfway = {} THEN {deref(r)}
      ELSE UNION {{reqs[j].pre, ServerConfig(reqs[j].backend, EmptyMap)} :
                    j \in halfway}

\* get_config: return _config; the handler goes on with the object.
get_config_return(i) ==
  /\ reqs[i].pc = "return_config"
  /\ reqs' = [reqs EXCEPT ![i] =
       [@ EXCEPT !.config = GlobalRef,
                 !.snaps = IF reqs[i].op = "set_backend" THEN {}
                           ELSE found(i, GlobalRef),
                 !.k = 1,
                 !.pc = CASE reqs[i].op = "status" -> "default_backend"
                          [] reqs[i].op = "_get_effective_backend" -> "in"
                          [] reqs[i].tool # "" -> "set_backend"
                          [] OTHER -> "set_all_backends"]]
  /\ UNCHANGED <<cfgVars, PrefsOthers>>

\* ServerConfig.set_backend: self.tool_backends[tool] = backend
conc_set_backend(i) ==
  /\ reqs[i].pc = "set_backend"
  /\ LET c == deref(reqs[i].config)
         t == reqs[i].tool
     IN  store(i, reqs[i].config,
               ServerConfig(c.default_backend,
                            [u \in DOMAIN c.tool_backends \cup {t} |->
                               IF u = t THEN reqs[i].backend
                               ELSE c.tool_backends[u]]),
               ServerConfig(c.default_backend,
                            [u \in DOMAIN c.tool_backends \cup {t} |->
                               IF u = t THEN reqs[i].backend
                               ELSE c.tool_backends[u]]),
               "done")
  /\ UNCHANGED PrefsOthers

\* ServerConfig.set_all_backends: self.default_backend = backend
conc_set_all_backends(i) ==
  /\ reqs[i].pc = "set_all_backends"
  /\ store(i, reqs[i].config,
           ServerConfig(reqs[i].backend, deref(reqs[i].config).tool_backends),
           ServerConfig(reqs[i].backend, EmptyMap), "clear")
  /\ UNCHANGED PrefsOthers

\* ServerConfig.set_all_backends: self.tool_backends.clear()
conc_clear(i) ==
  /\ reqs[i].pc = "clear"
  /\ store(i, reqs[i].config,
           ServerConfig(deref(reqs[i].config).default_backend, EmptyMap),
           ServerConfig(deref(reqs[i].config).default_backend, EmptyMap),
           "done")
  /\ UNCHANGED PrefsOthers

\* status: "default_backend": config.default_backend.value
conc_default_backend(i) ==
  /\ reqs[i].pc = "default_backend"
  /\ reqs' = [reqs EXCEPT
       ![i].default_backend = deref(reqs[i].config).default_backend,
       ![i].pc = "in"]
  /\ UNCHANGED <<cfgVars, PrefsOthers>>

\* The tool a reader is looking up.
tool_of(i) ==
  IF reqs[i].op = "status" THEN SharedToolOrder[reqs[i].k] ELSE reqs[i].tool

\* get_backend_for: if tool in self.tool_backends
conc_in(i) ==
  /\ reqs[i].pc = "in"
  /\ reqs' = [reqs EXCEPT ![i].pc =
       IF tool_of(i) \in DOMAIN deref(reqs[i].config).tool_backends
         THEN "getitem" ELSE "return_default"]
  /\ UNCHANGED <<cfgVars, PrefsOthers>>

\* What a reader does with the backend get_backend_for returned.
returned(i, backend) ==
  IF reqs[i].op = "status"
    THEN [reqs[i] EXCEPT
            !.tool_backends =
               [u \in DOMAIN reqs[i].tool_backends \cup {tool_of(i)} |->
                  IF u = tool_of(i) THEN backend ELSE reqs[i].tool_backends[u]],
            !.k = @ + 1,
            !.status = IF reqs[i].k = Len(SharedToolOrder) THEN "ok" ELSE @,
            !.pc = IF reqs[i].k = Len(SharedToolOrder) THEN "done" ELSE "in"]
    ELSE [reqs[i] EXCEPT !.result = backend, !.status = "ok", !.pc = "done"]

\* get_backend_for: return self.tool_backends[tool]; KeyError when the key
\* has gone since the test, and neither handler catches it.
conc_getitem(i) ==
  /\ reqs[i].pc = "getitem"
  /\ LET overrides == deref(reqs[i].config).tool_backends
     IN  reqs' = [reqs EXCEPT ![i] =
           IF tool_of(i) \in DOMAIN overrides
             THEN returned(i, overrides[tool_of(i)])
             ELSE [@ EXCEPT !.status = "raised", !.pc = "raised"]]
  /\ UNCHANGED <<cfgVars, PrefsOthers>>

\* get_backend_for: return self.default_backend
conc_return_default(i) ==
  /\ reqs[i].pc = "return_default"
  /\ reqs' = [reqs EXCEPT ![i] =
                 returned(i, deref(reqs[i].config).default_backend)]
  /\ UNCHANGED <<cfgVars, PrefsOthers>>

\* The answer, or the exception, leaves the handler.
prefs_return(i) ==
  /\ reqs[i].pc \in {"done", "raised"}
  /\ reqs[i].op \in {"set_backend", "status", "_get_effective_backend"}
  /\ LET r == reqs[i].config
         last == r.kind = "displaced"
                   /\ \A j \in DOMAIN reqs \ {i} : reqs[j].config # r
         kept(j) == IF last /\ r.by = j THEN IdleReq.displaced
                    ELSE reqs[j].displaced
     IN  reqs' = [j \in DOMAIN reqs |->
           IF j = i THEN [IdleReq EXCEPT !.displaced = kept(j)]
           ELSE [reqs[j] EXCEPT !.displaced = kept(j)]]
  /\ UNCHANGED <<cfgVars, PrefsOthers>>

PrefsTools == {"hover", "symbols"}

PrefsNext ==
  \/ \E i \in 1..MaxRequests, b \in Backends, t \in {"", "hover"} :
       prefs_begin(i, "set_backend", b, t)
  \/ \E i \in 1..MaxRequests : prefs_begin(i, "status", "", "")
  \/ \E i \in 1..MaxRequests, t \in PrefsTools :
       prefs_begin(i, "_get_effective_backend", "", t)
  \/ \E i \in 1..MaxRequests : get_config_is_none(i)
  \/ \E i \in 1..MaxRequests : get_config_from_env(i)
  \/ \E i \in 1..MaxRequests : get_config_return(i)
  \/ \E i \in 1..MaxRequests : conc_set_backend(i)
  \/ \E i \in 1..MaxRequests : conc_set_all_backends(i)
  \/ \E i \in 1..MaxRequests : conc_clear(i)
  \/ \E i \in 1..MaxRequests : conc_default_backend(i)
  \/ \E i \in 1..MaxRequests : conc_in(i)
  \/ \E i \in 1..MaxRequests : conc_getitem(i)
  \/ \E i \in 1..MaxRequests : conc_return_default(i)
  \/ \E i \in 1..MaxRequests : prefs_return(i)

SpecPrefs == Init /\ [][PrefsNext]_vars

\* ------------------------------------------------------ what the claims say

\* The components of a normalized absolute path.
components(p) == normComps(split(p), <<>>, initial_slashes(p))

\* p is w or a descendant of w: w's components lead p's ("//" and "/" name
\* the same root directory).
isUnder(p, w) ==
  /\ Len(components(w)) <= Len(components(p))
  /\ SubSeq(components(p), 1, Len(components(w))) = components(w)

\* An absolute path with no empty, "." or ".." component and no trailing slash.
IsNormalizedAbsolute(p) ==
  /\ isabs(p)
  /\ LET body == SubSeq(p, initial_slashes(p) + 1, Len(p))
     IN  \/ body = <<>>
         \/ \A i \in 1..Len(split(body)) :
              split(body)[i] \notin {<<>>, Dot, DotDot}
  /\ initial_slashes(p) \in {1, 2}
  /\ ~startswith(p, <<"/", "/", "/">>)

\* The absolute path an input names for a gateway whose workspace is w:
\* relative inputs are taken from w, or from the current directory when no
\* workspace is active.
target(w, file_path) ==
  normpath(IF isabs(file_path) THEN file_path
           ELSE IF w # NoPath THEN join(w, file_path)
           ELSE join(Cwd, file_path))

PathTools ==
  SHARED_TOOLS \cup
  {"rename", "move", "change_signature", "function_signature", "diagnostics",
   "signature_help", "update_document", "inlay_hints", "code_action",
   "run_code_action", "search"}

\* C1: whatever set_backend calls came before and whatever explicit backend
\* a call gives, the effective backend of rename is rope and that of
\* diagnostics and signature_help is pyright.
C1_PinBeforeExplicit ==
  call.op = "_get_effective_backend" =>
    /\ call.tool \in ROPE_ONLY_TOOLS => call.servedBy = "rope"
    /\ call.tool \in PYRIGHT_ONLY_TOOLS => call.servedBy = "pyright"

\* C2: a path-taking tool called with a path that lies outside the active
\* workspace answers Context Mismatch and touches no collaborator.
C2_OutsideNeverDispatched ==
  ( /\ call.op \in PathTools
    /\ call.wsBefore # NoPath
    /\ call.path # NoPath
    /\ ~isUnder(target(call.wsBefore, call.path), call.wsBefore) )
  => ( /\ call.error = "Context Mismatch"
       /\ call.effects = <<>>
       /\ lspClients = call.lspBefore
       /\ ropeProjects = call.ropeBefore )

\* C3: with a workspace active, resolve_file_path succeeds, and
\* is_file_in_workspace answers true, only for the workspace and its
\* descendants; a sibling whose name starts with the workspace's name is
\* rejected.
C3_SeparatorAnchored ==
  /\ ( /\ call.op = "resolve_file_path"
       /\ call.wsBefore # NoPath
       /\ call.status = "ok" )
     => isUnder(call.resolved, call.wsBefore)
  /\ ( /\ call.op = "is_file_in_workspace"
       /\ call.wsBefore # NoPath
       /\ call.flag )
     => isUnder(abspath(call.path), call.wsBefore)

\* C4: calls that run while switch_workspace runs never see a half-switched
\* state: a call that got its language-server client did so for the
\* workspace its path was resolved against, and no session is open for a
\* workspace other than the active one.
C4_NoHalfSwitchedState ==
  /\ \A i \in 1..MaxRequests :
       (reqs[i].op = "diagnostics" /\ reqs[i].pc \in {"client", "done"}
          /\ reqs[i].status # "error" /\ reqs[i].wsAtResolve # NoPath)
       => reqs[i].ws = reqs[i].wsAtResolve
  /\ activeWorkspace # NoPath => lspClients \subseteq {activeWorkspace}

C6_InvalidPathChangesNothing ==
  ( /\ call.op = "switch_workspace"
    /\ kernelPath(target(NoPath, call.path)) \notin Dirs )
  => /\ call.status = "error"
     /\ call.error = "Invalid Path"
     /\ activeWorkspace = call.wsBefore
     /\ lspClients = call.lspBefore
     /\ ropeProjects = call.ropeBefore
     /\ call.effects = <<>>

C6_Witness ==
  /\ call.op = "switch_workspace"
  /\ call.error = "Invalid Path"
  /\ call.wsBefore # NoPath
  /\ call.lspBefore # {}
  /\ call.ropeBefore # {}

\* C7: only a successful switch_workspace changes the active workspace.
C7_OnlySwitchChangesWorkspace ==
  [][activeWorkspace' # activeWorkspace
       => call'.op = "switch_workspace" /\ call'.status = "ok"]_vars

\* C8: switch_workspace(W) right after a successful switch_workspace(W)
\* succeeds, returns the path the first call returned and leaves the active
\* workspace what the first call set.
C8_SwitchTwice ==
  ( /\ call.op = "switch_workspace"
    /\ lastSwitch.some
    /\ lastSwitch.path = call.path )
  => /\ call.status = "ok"
     /\ call.resolved = call.wsBefore
     /\ activeWorkspace = call.wsBefore
     /\ lspClients = {} /\ ropeProjects = {}

C8_Witness ==
  /\ call.op = "switch_workspace"
  /\ lastSwitch.some
  /\ lastSwitch.path = call.path
  /\ ~isabs(call.path)
  /\ call.status = "ok"

\* C9: with a workspace W active, a relative input is joined onto W and
\* normalized, and the call succeeds exactly when the result lies under W;
\* an absolute path outside W is answered Context Mismatch.
C9_RelativeJoinedOntoWorkspace ==
  ( /\ call.op = "resolve_file_path"
    /\ call.wsBefore # NoPath )
  => LET t == target(call.wsBefore, call.path)
     IN  /\ ~isabs(call.path)
              => (call.status = "ok" <=> isUnder(t, call.wsBefore))
         /\ ~isUnder(t, call.wsBefore) => call.error = "Context Mismatch"
         /\ call.status = "ok" => call.resolved = t
         /\ call.status # "ok" => call.error = "Context Mismatch"

\* C10: with no workspace active, resolve_file_path returns no error and a
\* normalized absolute path (relative inputs taken from the current
\* directory), and is_file_in_workspace answers true.
C10_NoWorkspaceNeverFails ==
  call.wsBefore = NoPath =>
    /\ call.op = "resolve_file_path"
         => /\ call.status = "ok"
            /\ call.error = ""
            /\ IsNormalizedAbsolute(call.resolved)
            /\ call.resolved = target(NoPath, call.path)
    /\ call.op = "is_file_in_workspace" => call.flag

C10_Witness ==
  /\ call.op = "resolve_file_path"
  /\ call.wsBefore = NoPath
  /\ ~isabs(call.path)
  /\ call.status = "ok"
  /\ call.resolved = <<"/", "a">>

\* C11: a Context Mismatch of resolve_file_path names the input, the
\* resolved absolute path and the workspace that was active at the call, and
\* comes with no path; a successful resolve comes with a path and no error.
C11_MismatchCarriesContext ==
  call.op = "resolve_file_path" =>
    /\ call.status \in {"ok", "error"}
    /\ call.status = "error" =>
         /\ call.error = "Context Mismatch"
         /\ call.resolved = NoPath
         /\ call.message[1] = call.path
         /\ call.message[2] = call.resolved_path
         /\ call.message[3] = call.current_workspace
         /\ call.resolved_path = target(call.wsBefore, call.path)
         /\ call.current_workspace = call.wsBefore
         /\ call.current_workspace = activeWorkspace
         /\ call.current_workspace # NoPath
    /\ call.status = "ok" =>
         /\ call.error = ""
         /\ call.message = <<>>
         /\ call.resolved # NoPath

C11_Witness ==
  /\ call.op = "resolve_file_path"
  /\ call.error = "Context Mismatch"
  /\ ~isabs(call.path)
  /\ call.wsBefore = <<"/", "b", "/", "a">>
  /\ call.resolved_path = <<"/", "b">>

\* The effective backend of every shared tool that has a stored override m[t]
\* is that override.
OverridesInForce(m) ==
  \A t \in DOMAIN m : _get_effective_backend(t, "") = m[t]

\* C12: after set_all_backends(B), whatever was stored before, the override
\* map is empty and the effective backend of every shared tool, with no
\* explicit argument, is B.
C12_SetAllBackends ==
  ( \/ call.op = "ServerConfig.set_all_backends"
    \/ call.op = "set_backend" /\ call.tool = "" /\ call.status = "ok" )
  => /\ tool_backends = EmptyMap
     /\ default_backend = lower(call.backend)
     /\ \A t \in SHARED_TOOLS :
          _get_effective_backend(t, "") = lower(call.backend)

C12_Witness ==
  /\ call.op = "set_backend" /\ call.tool = "" /\ call.status = "ok"
  /\ \E t \in DOMAIN call.tool_backendsBefore :
       call.tool_backendsBefore[t] # lower(call.backend)
  /\ call.default_backendBefore # lower(call.backend)

\* C13 as claimed: a set_backend call with the tool omitted, of the tool or
\* of ServerConfig, keeps every stored override.
C13_OmittedToolKeepsOverrides ==
  ( \/ call.op = "ServerConfig.set_backend" /\ call.tool = None
    \/ call.op = "set_backend" /\ call.tool = "" /\ call.status = "ok" )
  => /\ tool_backends = call.tool_backendsBefore
     /\ OverridesInForce(call.tool_backendsBefore)

\* C13 as amended: ServerConfig.set_backend with the tool omitted changes
\* the default backend only and keeps every stored override in force; the
\* set_backend tool with the tool omitted clears the overrides instead.
C13_ConfigSetBackendKeepsOverrides ==
  /\ (call.op = "ServerConfig.set_backend" /\ call.tool = None)
     => /\ tool_backends = call.tool_backendsBefore
        /\ default_backend = call.backend
        /\ OverridesInForce(call.tool_backendsBefore)
  /\ (call.op = "set_backend" /\ call.tool = "" /\ call.status = "ok")
     => tool_backends = EmptyMap

C13_Witness ==
  /\ call.op = "ServerConfig.set_backend" /\ call.tool = None
  /\ call.default_backendBefore # call.backend
  /\ \E t \in DOMAIN call.tool_backendsBefore :
       call.tool_backendsBefore[t] = call.default_backendBefore

\* C14: for a shared tool the effective backend is the explicit argument
\* when it names rope or pyright (in any letter case), else the stored
\* override of the tool when there is one, else the default backend.
C14_ExplicitOverrideDefault ==
  (call.op = "_get_effective_backend" /\ call.tool \in SHARED_TOOLS)
  => call.servedBy =
       IF call.backend # "" /\ lower(call.backend) \in Backends
         THEN lower(call.backend)
       ELSE IF call.tool \in DOMAIN tool_backends
         THEN tool_backends[call.tool]
       ELSE default_backend

C14_Witness ==
  /\ call.op = "_get_effective_backend"
  /\ call.tool = "hover"
  /\ call.backend = "ruff"
  /\ "hover" \in DOMAIN tool_backends
  /\ tool_backends["hover"] # default_backend
  /\ call.servedBy = "pyright"

EditCall ==
  /\ call.op = "run_code_action"
  /\ call.target_action.kind = "edit"
  /\ call.resolved # NoPath

ChangeItems == 1..Len(call.target_action.changes)
ItemFile(i) == file_path_of(call.target_action.changes[i].uri)
ItemEdits(i) == call.target_action.changes[i].text_edits
ItemBefore(i) == call.diskBefore[ItemFile(i)]

pos_le(p, q) ==
  \/ p.line < q.line
  \/ p.line = q.line /\ p.character <= q.character

NonOverlapping(es) ==
  \A i, j \in 1..Len(es) :
     i # j => \/ pos_le(es[i].range["end"], es[j].range.start)
              \/ pos_le(es[j].range["end"], es[i].range.start)

DistinctStarts(es) ==
  \A i, j \in 1..Len(es) : i # j => es[i].range.start # es[j].range.start

Perms(es) ==
  {[i \in 1..Len(es) |-> es[f[i]]] :
     f \in {g \in [1..Len(es) -> 1..Len(es)] :
              \A i, j \in 1..Len(es) : i # j => g[i] # g[j]}}

\* C16: for pairwise non-overlapping edits of one file with distinct start
\* positions, every permutation of the list gives the same outcome, and the
\* content the call wrote is the one every permutation gives.
C16_PermutationInvariant ==
  EditCall =>
    \A i \in ChangeItems :
       ( /\ ItemBefore(i).exists
         /\ NonOverlapping(ItemEdits(i))
         /\ DistinctStarts(ItemEdits(i)) )
       => \A p \in Perms(ItemEdits(i)) :
            /\ edited(ItemBefore(i).content, p)
                 = edited(ItemBefore(i).content, ItemEdits(i))
            /\ call.status = "ok"
                 => disk[ItemFile(i)]
                      = File(edited(ItemBefore(i).content, p).content)

\* Two edits given in ascending order, which the sort reverses, and applying
\* them as given would have written something else.
C16_Witness ==
  /\ EditCall
  /\ call.status = "ok"
  /\ \E i \in ChangeItems :
       /\ Len(ItemEdits(i)) = 2
       /\ NonOverlapping(ItemEdits(i))
       /\ DistinctStarts(ItemEdits(i))
       /\ key_less(ItemEdits(i)[1], ItemEdits(i)[2])
       /\ disk[ItemFile(i)] # ItemBefore(i)
       /\ edited_in_list_order(ItemBefore(i).content, ItemEdits(i)).content
            # disk[ItemFile(i)].content

\* The offset of a position in the content originally read.
offset_in(content, pos) ==
  position_to_offset(content, pos.line + 1, pos.character + 1)

ValidIn(content, es) ==
  \A i \in 1..Len(es) : /\ offset_in(content, es[i].range.start).ok
                         /\ offset_in(content, es[i].range["end"]).ok

\* The edits in an order in which their ranges follow one another in content.
InTextOrder(content, es) ==
  \A i \in 1..(Len(es) - 1) :
     offset_in(content, es[i].range["end"]).offset
       <= offset_in(content, es[i + 1].range.start).offset

\* The simultaneous substitution: the stretches of content between the
\* ranges, from offset from on, with each edit's text in place of its range.
RECURSIVE Substituted(_, _, _, _)
Substituted(content, es, i, from) ==
  IF i > Len(es) THEN SubSeq(content, from + 1, Len(content))
  ELSE SubSeq(content, from + 1, offset_in(content, es[i].range.start).offset)
         \o es[i].newText
         \o Substituted(content, es, i + 1,
                        offset_in(content, es[i].range["end"]).offset)

\* Edits that start at the same place may come in either order.
Simultaneous(content, es) ==
  {Substituted(content, p, 1, 0) :
     p \in {q \in Perms(es) : InTextOrder(content, q)}}

\* C17: for non-overlapping edits of a file whose positions lie in the content
\* read, the loop converts every position as it would against that content:
\* no conversion fails, and the content written is the simultaneous
\* substitution of the ranges taken as offsets into the content read.
C17_SimultaneousSubstitution ==
  EditCall =>
    \A i \in ChangeItems :
       ( /\ ItemBefore(i).exists
         /\ NonOverlapping(ItemEdits(i))
         /\ ValidIn(ItemBefore(i).content, ItemEdits(i)) )
       => /\ call.failed # ItemFile(i)
          /\ call.status = "ok"
               => disk[ItemFile(i)].content
                    \in Simultaneous(ItemBefore(i).content, ItemEdits(i))

ItemOf(file) == CHOOSE i \in ChangeItems : ItemFile(i) = file

Named(file) == \E i \in ChangeItems : ItemFile(i) = file

\* C18: a file is opened for writing at most once in a call, and then with
\* all of its edits applied; a file whose edits hit a conversion that fails
\* is not written and keeps its content, as does every file not written.
C18_AllOrNothingPerFile ==
  EditCall =>
    /\ \A m, n \in 1..Len(call.written) :
          m # n => call.written[m] # call.written[n]
    /\ \A m \in 1..Len(call.written) :
          LET file == call.written[m]
              r == edited(call.diskBefore[file].content,
                          ItemEdits(ItemOf(file)))
          IN  /\ Named(file)
              /\ call.diskBefore[file].exists
              /\ r.ok
              /\ disk[file] = File(r.content)
    /\ \A file \in Files :
          (\A m \in 1..Len(call.written) : call.written[m] # file)
             => disk[file] = call.diskBefore[file]
    /\ call.failed # ""
         => /\ call.status = "error"
            /\ \A m \in 1..Len(call.written) : call.written[m] # call.failed
            /\ disk[call.failed] = call.diskBefore[call.failed]
    /\ \A i \in ChangeItems :
          ( /\ ItemBefore(i).exists
            /\ ~edited(ItemBefore(i).content, ItemEdits(i)).ok )
          => disk[ItemFile(i)] = ItemBefore(i)

\* The second of two edits fails after the first has changed the content in
\* memory.
C18_Witness ==
  /\ EditCall
  /\ call.failed = "/f"
  /\ Len(ItemEdits(ItemOf("/f"))) = 2
  /\ edited(call.diskBefore["/f"].content, ItemEdits(ItemOf("/f"))).content
       # call.diskBefore["/f"].content
  /\ disk["/f"] = call.diskBefore["/f"]

\* C19: a file named by the edit set that does not exist when the edit is
\* applied is not created; and when no conversion fails, every other file
\* named has the whole of its edit list applied, wherever the missing file
\* stands in the set.
C19_MissingFileSkipped ==
  EditCall =>
    \A i \in ChangeItems :
       /\ ~ItemBefore(i).exists => ~disk[ItemFile(i)].exists
       /\ ( /\ call.status = "ok"
            /\ ItemBefore(i).exists
            /\ \E j \in ChangeItems : ~ItemBefore(j).exists )
          => /\ \E m \in 1..Len(call.written) : call.written[m] = ItemFile(i)
             /\ disk[ItemFile(i)]
                  = File(edited(ItemBefore(i).content, ItemEdits(i)).content)

\* The missing file comes first in the set, and the file after it is changed.
C19_Witness ==
  /\ EditCall
  /\ call.status = "ok"
  /\ Len(call.target_action.changes) = 2
  /\ ~ItemBefore(1).exists
  /\ ~disk[ItemFile(1)].exists
  /\ ItemBefore(2).exists
  /\ ItemEdits(2) # <<>>
  /\ disk[ItemFile(2)] # ItemBefore(2)

\* C20: a call whose edit set names a file that no longer exists does not
\* answer as a call does in which every file's edits were applied.  (The
\* answer is the envelope: call.written is not part of it.)
C20_MissingTargetReported ==
  ( /\ EditCall
    /\ \E i \in ChangeItems : ~ItemBefore(i).exists )
  => ~( /\ call.status = "ok"
        /\ call.response = "Applied workspace edit"
        /\ call.error = "" )

\* ------------------------------------------------- interpreter discovery

\* A call of get_python_path_for_workspace, and the key it looks up.
LocateCall == call.op = "get_python_path_for_workspace"
LocateKey == abspath(call.path)
NoOverride ==
  /\ \A k \in DOMAIN python_paths : components(k) # components(call.path)
  /\ global_python_path = ""

\* Step 4 of the chain: the first conventional virtual-environment
\* interpreter under w that exists, or <<>>.
Conventional(w, fs) ==
  LET exe(d) == w \o <<"/", d, "/", "bin", "/", "python">>
  IN  IF exe(".venv") \in fs.files THEN exe(".venv")
      ELSE IF exe("venv") \in fs.files THEN exe("venv")
      ELSE IF exe("env") \in fs.files THEN exe("env")
      ELSE NoPath

\* C21: get_python_path_for_workspace returns a path for every workspace
\* and every state of the files, and the path is the first match of: the
\* workspace's override, the global override, the interpreter the
\* configuration declares, the first conventional one, sys.executable.
C21_FirstMatchOfChain ==
  LocateCall =>
    /\ call.status = "ok"
    /\ call.located =
         IF LocateKey \in DOMAIN python_paths
           THEN <<python_paths[LocateKey]>>
         ELSE IF global_python_path # "" THEN <<global_python_path>>
         ELSE IF find_pyright_python_path(LocateKey, call.fs).found
           THEN find_pyright_python_path(LocateKey, call.fs).path
         ELSE IF Conventional(LocateKey, call.fs) # NoPath
           THEN Conventional(LocateKey, call.fs)
         ELSE sys_executable

\* A table that names a virtual-environment root and an environment name,
\* and the interpreter the two name under w.
NamesVenv(v) == v.t = "dict" /\ v.venvPath.t = "str" /\ v.venv.t = "str"
VenvInterpreter(v, w) ==
  Path_str(join(join(join(join(w, v.venvPath.s), v.venv.s), <<"bin">>),
                <<"python">>))

\* The tables of the workspace's configuration files.
JsonTable == call.fs.json.value
TomlTable == call.fs.toml.value
HasJsonTable == call.fs.json.state = "parsed"
HasTomlTable == call.fs.toml.state = "parsed" /\ call.fs.toml.tool = "dict"

HasFirstTable ==
  \/ HasJsonTable
  \/ call.fs.json.state # "parsed" /\ HasTomlTable
FirstTable == IF HasJsonTable THEN JsonTable ELSE TomlTable

\* The table has no pythonPath key.
NoDirectInterpreter(v) == v.pythonPath.t = "absent"

PathKeyNotString(v) ==
  \/ v.pythonPath.t \in {"null", "number"}
  \/ v.venvPath.t = "number"
  \/ v.venv.t = "number"
Malformed(file) ==
  \/ file.state \in {"absent", "unreadable", "invalid"}
  \/ file.tool = "other"
  \/ file.state = "parsed" /\ file.value.t = "other"
  \/ file.state = "parsed" /\ PathKeyNotString(file.value)

\* C23: with both configuration files missing or malformed, discovery does
\* not raise; with no override the call falls through to the conventional
\* virtual environments and then to sys.executable.
C23_MalformedConfigNotFound ==
  ( /\ LocateCall
    /\ Malformed(call.fs.json)
    /\ Malformed(call.fs.toml) )
  => /\ call.status = "ok"
     /\ ~find_pyright_python_path(LocateKey, call.fs).raised
     /\ ~find_pyright_python_path(LocateKey, call.fs).found
     /\ NoOverride
          => call.located =
               IF Conventional(LocateKey, call.fs) # NoPath
                 THEN Conventional(LocateKey, call.fs)
                 ELSE sys_executable

\* C24: set_python_path answers an error for a path that does not exist and
\* for one that is not executable, and leaves the global override and every
\* workspace's binding as they were; every binding stored names a file that
\* exists and is executable.
C24_InvalidPathNeverStored ==
  /\ ( /\ call.op = "set_python_path"
       /\ \/ call.python_path \notin ExistingFiles
          \/ call.python_path \notin ExecutableFiles )
     => /\ call.status = "error"
        /\ call.error =
             IF call.python_path \notin ExistingFiles THEN "does not exist"
             ELSE "not executable"
        /\ python_paths = call.python_pathsBefore
        /\ global_python_path = call.global_python_pathBefore
  /\ \A w \in DOMAIN python_paths :
        python_paths[w] \in ExistingFiles \cap ExecutableFiles
  /\ global_python_path # ""
       => global_python_path \in ExistingFiles \cap ExecutableFiles

\* A file that exists but is not executable is refused while bindings are
\* stored.
C24_Witness ==
  /\ call.op = "set_python_path"
  /\ call.python_path \in ExistingFiles \ ExecutableFiles
  /\ call.status = "error"
  /\ call.python_pathsBefore # EmptyMap
  /\ call.global_python_pathBefore # ""
  /\ python_paths = call.python_pathsBefore

\* C25: a successful set_python_path(p, W) stores p under the normalized
\* absolute form of W and answers p and that key; with no workspace it stores
\* p as the global override.  get_python_path_for_workspace returns the
\* binding of a workspace however the workspace is spelled, and the global
\* override for a workspace with no binding of its own.
C25_StoredUnderNormalizedKey ==
  /\ (call.op = "set_python_path" /\ call.status = "ok")
     => IF call.path # NoPath
          THEN /\ IsNormalizedAbsolute(call.resolved)
               /\ components(call.resolved) = components(call.path)
               /\ call.resolved \in DOMAIN python_paths
               /\ python_paths[call.resolved] = call.python_path
               /\ global_python_path = call.global_python_pathBefore
          ELSE /\ global_python_path = call.python_path
               /\ python_paths = call.python_pathsBefore
  /\ LocateCall
     => /\ \A k \in DOMAIN python_paths :
             components(k) = components(call.path)
               => call.status = "ok" /\ call.located = <<python_paths[k]>>
        /\ ( /\ \A k \in DOMAIN python_paths :
                   components(k) # components(call.path)
             /\ global_python_path # "" )
           => call.status = "ok" /\ call.located = <<global_python_path>>

\* The workspace is asked about in another spelling than its key, and the
\* files declare an interpreter of their own.
C25_Witness ==
  /\ LocateCall
  /\ call.path \notin DOMAIN python_paths
  /\ abspath(call.path) \in DOMAIN python_paths
  /\ find_pyright_python_path(LocateKey, call.fs).found
  /\ call.located = <<python_paths[abspath(call.path)]>>

\* --------------------------------------------------------- failure envelopes

\* C26: no tool call ends with an exception of a collaborator leaving the
\* handler; every such exception is answered as an error envelope.
C26_NoRawException ==
  call.status # "raised"

\* C27: after a call that answers an error, or that an exception leaves,
\* the active workspace, the backend preferences, the interpreter bindings
\* and the content of a file whose edits failed are as before the call.
C27_FailedCallChangesNothing ==
  call.status \in {"error", "raised"}
    => /\ activeWorkspace = call.wsBefore
       /\ default_backend = call.default_backendBefore
       /\ tool_backends = call.tool_backendsBefore
       /\ python_paths = call.python_pathsBefore
       /\ global_python_path = call.global_python_pathBefore
       /\ call.failed # "" => disk[call.failed] = call.diskBefore[call.failed]

\* The operations that answer with the result of an analysis.
AnalysisOperations ==
  SHARED_TOOLS \cup
  {"rename", "move", "change_signature", "function_signature", "diagnostics",
   "signature_help", "update_document", "inlay_hints", "code_action",
   "run_code_action", "search"}

\* C28: the success envelope of every analysis operation has a "backend"
\* field.
C28_SuccessNamesBackend ==
  (call.op \in AnalysisOperations /\ call.status = "ok")
    => call.backendField # ""

\* ------------------------------------- configuration from the environment

EnvCall == call.op = "get_config"
Built == [default_backend |-> default_backend, tool_backends |-> tool_backends]

\* A value that is set and names neither backend.
NamesNoBackend(v) == v # "" /\ lower(v) \notin Backends

\* C29: a variable whose value names neither rope nor pyright is ignored: the
\* configuration built is the one built with that variable unset, also when
\* the other prefix carries a valid value for the same suffix.
C29_InvalidValueIgnored ==
  EnvCall =>
    \A n \in EnvNames :
       NamesNoBackend(call.env[n])
         => Built = from_env([call.env EXCEPT ![n] = ""])

\* The backends a suffix names under either prefix.
NamedBackends(env, suffix) ==
  {lower(env[<<ENV_PREFIXES[1], suffix>>]),
   lower(env[<<ENV_PREFIXES[2], suffix>>])} \cap Backends

\* C30: the default backend is the one BACKEND names under either prefix,
\* in any case of letters, and rope when it names none; a shared tool has
\* the override its <TOOL>_BACKEND names under either prefix, and none when
\* it names none.
C30_ConfigurationFromEnvironment ==
  EnvCall =>
    /\ IF NamedBackends(call.env, "BACKEND") = {} THEN default_backend = "rope"
       ELSE default_backend \in NamedBackends(call.env, "BACKEND")
    /\ \A t \in SHARED_TOOLS :
          IF NamedBackends(call.env, tool_suffix(t)) = {}
            THEN t \notin DOMAIN tool_backends
            ELSE /\ t \in DOMAIN tool_backends
                 /\ tool_backends[t] \in NamedBackends(call.env, tool_suffix(t))

\* ------------------------------ backend preferences read and set concurrently

\* What status reports of a configuration: the default and the effective
\* backend of every shared tool.
effective(c, tool) ==
  IF tool \in DOMAIN c.tool_backends THEN c.tool_backends[tool]
  ELSE c.default_backend

Reported(c) ==
  ServerConfig(c.default_backend, [t \in SHARED_TOOLS |-> effective(c, t)])

Reads(i) == reqs[i].op \in {"status", "_get_effective_backend"}

\* C31: a status call or an effective-backend lookup that runs while the
\* preferences are being set reports a configuration that was in force before
\* or after a whole mutation: never the new default with overrides the same
\* mutation clears, and never an exception.
C31_NoTornRead ==
  \A i \in 1..MaxRequests :
    Reads(i) =>
      /\ reqs[i].pc # "raised"
      /\ reqs[i].pc = "done" =>
           IF reqs[i].op = "status"
             THEN ServerConfig(reqs[i].default_backend, reqs[i].tool_backends)
                    \in {Reported(c) : c \in reqs[i].snaps}
             ELSE reqs[i].result
                    \in {effective(c, reqs[i].tool) : c \in reqs[i].snaps}

\* C32: the configuration is built at most once.  No request is about to
\* assign a ServerConfig to _config when _config already refers to one, and
\* the object a request got from get_config is the one _config refers to,
\* so what set_backend stores in it is what every later lookup reads.
C32_ConfigurationBuiltOnce ==
  \A i \in 1..MaxRequests :
    /\ reqs[i].pc = "from_env" => _config = "None"
    /\ reqs[i].config.kind # "displaced"

\* ------------------------------------------------- the backend of one call

\* An explicit backend argument that names neither backend.
UnknownExplicit == call.backend # "" /\ lower(call.backend) \notin Backends

\* What the preferences stored before the call give a tool.
StoredChoice(tool) ==
  IF tool \in ROPE_ONLY_TOOLS THEN "rope"
  ELSE IF tool \in PYRIGHT_ONLY_TOOLS THEN "pyright"
  ELSE IF tool \in DOMAIN call.tool_backendsBefore
    THEN call.tool_backendsBefore[tool]
  ELSE call.default_backendBefore

\* C33: an explicit backend string that names no known backend is ignored
\* without an error: the effective backend is the one the stored preferences
\* give (pin, override of the tool, default), and the preferences are as they
\* were.
C33_UnknownExplicitIgnored ==
  (call.op = "_get_effective_backend" /\ UnknownExplicit)
  => /\ call.status = "ok"
     /\ call.servedBy = StoredChoice(call.tool)
     /\ default_backend = call.default_backendBefore
     /\ tool_backends = call.tool_backendsBefore

C33_Witness ==
  /\ call.op = "_get_effective_backend" /\ UnknownExplicit
  /\ call.tool = "symbols"
  /\ "symbols" \in DOMAIN call.tool_backendsBefore
  /\ call.tool_backendsBefore["symbols"] = "pyright"
  /\ call.default_backendBefore = "rope"
  /\ call.servedBy = "pyright"

\* The backend a call's explicit argument and the stored preferences give.
EffectiveChoice ==
  IF call.backend # "" /\ lower(call.backend) \in Backends
    THEN lower(call.backend)
    ELSE StoredChoice(call.op)

\* The collaborators a call went to.
Went(k) == \E n \in 1..Len(call.effects) : call.effects[n].k = k

\* C34: a shared tool that gets past the path check goes to the language
\* server client exactly when the effective backend of (tool, explicit
\* argument) is pyright and to rope otherwise, and the backend field of the
\* envelope it returns names the backend it went to.
C34_ServicedByEffectiveBackend ==
  (call.op \in SHARED_TOOLS /\ call.effects # <<>>)
  => /\ Went("get_lsp_client") <=> EffectiveChoice = "pyright"
     /\ Went("rope") <=> EffectiveChoice # "pyright"
     /\ ~(Went("rope") /\ Went("get_lsp_client"))
     /\ call.status \in {"ok", "error"} =>
          call.backendField = EffectiveChoice

C34_Witness ==
  /\ call.op = "hover" /\ call.backend = "PYRIGHT"
  /\ call.default_backendBefore = "rope"
  /\ "hover" \notin DOMAIN call.tool_backendsBefore
  /\ call.status = "ok"
  /\ Went("client") /\ call.backendField = "pyright"

\* ------------------------------------------- conventional environments

ConventionalNames == <<".venv", "venv", "env">>

\* The interpreter of the n-th conventional name under the workspace called.
ConventionalInterpreter(n) ==
  abspath(call.path) \o <<"/", ConventionalNames[n], "/", "bin", "/", "python">>

HasInterpreter(n) == ConventionalInterpreter(n) \in call.fs.files

\* C35: find_venv_python_path returns the interpreter of the first of .venv,
\* venv, env whose interpreter file exists, and nothing when none does; a
\* name whose directory exists without the interpreter file is passed over.
C35_FirstConventionalInterpreter ==
  call.op = "find_venv_python_path" =>
    IF \E n \in 1..3 : HasInterpreter(n)
      THEN \E n \in 1..3 :
             /\ HasInterpreter(n)
             /\ \A m \in 1..(n - 1) : ~HasInterpreter(m)
             /\ call.located = ConventionalInterpreter(n)
      ELSE call.located = NoPath

C35_Witness ==
  /\ call.op = "find_venv_python_path"
  /\ <<"/", "a", "/", ".venv">> \in call.fs.files
  /\ ~HasInterpreter(1) /\ ~HasInterpreter(2) /\ HasInterpreter(3)
  /\ call.located = ConventionalInterpreter(3)

\* ------------------------------------ the configuration step of discovery

\* The interpreter a table's pythonPath names under w, when it is a string.
DirectInterpreter(v, w) == Path_str(join(w, v.pythonPath.s))

DirectExists(v) ==
  /\ v.t = "dict" /\ v.pythonPath.t = "str"
  /\ DirectInterpreter(v, LocateKey) \in call.fs.files

DirectMissing(v) ==
  /\ v.t = "dict" /\ v.pythonPath.t = "str"
  /\ DirectInterpreter(v, LocateKey) \notin call.fs.files

VenvExists(v) ==
  NamesVenv(v) /\ VenvInterpreter(v, LocateKey) \in call.fs.files

\* What is left when a table gives nothing: the steps after it.
AfterConfiguration ==
  IF Conventional(LocateKey, call.fs) # NoPath
    THEN Conventional(LocateKey, call.fs)
    ELSE sys_executable

AfterJson ==
  IF HasTomlTable /\ DirectExists(TomlTable)
    THEN DirectInterpreter(TomlTable, LocateKey)
  ELSE IF HasTomlTable /\ VenvExists(TomlTable)
    THEN VenvInterpreter(TomlTable, LocateKey)
  ELSE AfterConfiguration

\* C36: with no override, a pythonPath whose target exists is the answer;
\* when pyrightconfig.json has the key and the target does not exist,
\* discovery goes on to venvPath and venv of the same table, then to
\* pyproject.toml, and only then to the conventional environments and
\* sys.executable.
C36_MissingDirectPathFallsThrough ==
  (LocateCall /\ NoOverride /\ HasJsonTable) =>
    /\ DirectExists(JsonTable)
         => /\ call.status = "ok"
            /\ call.located = DirectInterpreter(JsonTable, LocateKey)
    /\ DirectMissing(JsonTable)
         => /\ call.status = "ok"
            /\ call.located =
                 IF VenvExists(JsonTable)
                   THEN VenvInterpreter(JsonTable, LocateKey)
                   ELSE AfterJson

\* ------------------------------------------- bindings are independent

\* C37: a successful set_python_path for workspace W1 leaves the global
\* override and the binding of every other workspace as they were, so
\* get_python_path_for_workspace answers for every other workspace what it
\* answered before; a successful set of the global override leaves every
\* per-workspace binding as it was.
C37_BindingsIndependent ==
  (call.op = "set_python_path" /\ call.status = "ok") =>
    IF call.path # NoPath
      THEN /\ global_python_path = call.global_python_pathBefore
           /\ \A k \in (DOMAIN python_paths
                            \cup DOMAIN call.python_pathsBefore)
                         \ {call.resolved} :
                 /\ k \in DOMAIN python_paths
                 /\ k \in DOMAIN call.python_pathsBefore
                 /\ python_paths[k] = call.python_pathsBefore[k]
           /\ \A w \in WorkspaceArgs, fs \in BindFsStates :
                 abspath(w) # call.resolved
                   => get_python_path_for_workspace(w, fs)
                        = python_path_for(call.python_pathsBefore,
                                          call.global_python_pathBefore,
                                          w, fs)
      ELSE python_paths = call.python_pathsBefore

\* /a is bound anew while /b keeps another interpreter and the global
\* override is a third state of its own.
C37_Witness ==
  /\ call.op = "set_python_path" /\ call.status = "ok"
  /\ call.resolved = <<"/", "a">>
  /\ <<"/", "a">> \in DOMAIN call.python_pathsBefore
  /\ call.python_pathsBefore[<<"/", "a">>] # call.python_path
  /\ <<"/", "b">> \in DOMAIN python_paths
  /\ python_paths[<<"/", "b">>] # call.python_path
  /\ global_python_path = python_paths[<<"/", "b">>]

\* ------------------------------------------ overrides of shared tools only

\* C38: in every configuration built by from_env and changed by set_backend
\* and set_all_backends, the tools that have an override are shared tools,
\* none of them rename, diagnostics or signature_help.
C38_OverridesOnlyForSharedTools ==
  /\ DOMAIN tool_backends \subseteq SHARED_TOOLS
  /\ DOMAIN tool_backends \cap (ROPE_ONLY_TOOLS \cup PYRIGHT_ONLY_TOOLS) = {}

\* The environment names a backend for rename and for hover; hover alone is
\* stored.
C38_Witness ==
  /\ call.op = "get_config"
  /\ call.env[<<ENV_PREFIXES[1], "RENAME_BACKEND">>] = "PYRIGHT"
  /\ call.env[<<ENV_PREFIXES[2], "DIAGNOSTICS_BACKEND">>] = "rope"
  /\ DOMAIN tool_backends = {"hover"}

\* --------------------------------------- sessions of the active workspace

\* The workspaces the call has asked get_lsp_client for.
RequestedFor ==
  {call.effects[i].ws :
     i \in {j \in DOMAIN call.effects :
              call.effects[j].k = "get_lsp_client"}}

\* C39: while a workspace is active, a tool asks for the language-server
\* client of that workspace and of no other, whatever file it is given; and
\* after a successful switch_workspace(W) has returned, until the next one
\* does, clients are asked for, and sessions are open, for W alone.
C39_SessionsOfActiveWorkspaceOnly ==
  /\ call.wsBefore # NoPath => RequestedFor \subseteq {call.wsBefore}
  /\ lastSwitch.switched # NoPath
       => /\ RequestedFor \subseteq {lastSwitch.switched}
          /\ lspClients \subseteq {lastSwitch.switched}
=============================================================================
